---- MODULE Spec2Model ----
(***************************************************************************)
(* The RabbitMQ tutorial programs of this repository, each modelled as a   *)
(* set of processes that call an AMQP broker.  The programs (declare,      *)
(* bind, publish, consume, ack, nack, exit) are translated from the Go     *)
(* sources.  The broker is an external dependency of the repository: its   *)
(* routing and delivery rules are modelled from spec.md sections 4.1-4.3.  *)
(***************************************************************************)
EXTENDS Integers, Sequences, FiniteSets, TLC

VARIABLES
    exchanges,  \* topology registry: exchange name -> kind
    queues,     \* topology registry: queue name -> [durable, exclusive, owner]
    bindings,   \* topology registry: set of [queue, exchange, key]
    gen,        \* number of server-generated queue names handed out
    consumers,  \* consumer id -> [queue, autoAck, prefetch, conn]
    ready,      \* queue name -> messages waiting in the queue, head first
    unacked,    \* consumer id -> deliveries outstanding (delivered, not acked)
    msgs,       \* consumer id -> deliveries in the Go channel Consume returned
    rr,         \* queue name -> its consumers in round-robin order
    enq,        \* history: queue name -> ids of the messages ever enqueued
    dlog,       \* history: queue name -> <<consumer, id>> of every dispatch
    pc,         \* process -> its position in its program
    local,      \* process -> its local variables (q.Name, workerType, ...)
    handled,    \* history: process -> <<id, response>> per handler run
    pubs,       \* history: [exchange, key] of every publish; ids count them
    lost        \* history: <<queue, id>> a closing auto-ack consumer had not handled

vars == <<exchanges, queues, bindings, gen, consumers, ready, unacked, msgs,
          rr, enq, dlog, pc, local, handled, pubs, lost>>

topology == <<exchanges, queues, bindings, gen>>
delivery == <<consumers, ready, unacked, msgs, rr, enq, dlog, lost>>

\* The number of messages published so far; the next message gets id sent+1.
sent == Len(pubs)

(***************************************************************************)
(* Generic helpers.                                                        *)
(***************************************************************************)
Ext(f, k, v) == [x \in DOMAIN f \cup {k} |-> IF x = k THEN v ELSE f[x]]

Drop(f, K) == [x \in DOMAIN f \ K |-> f[x]]

Min(S) == CHOOSE x \in S : \A y \in S : x <= y

Ids(s) == [i \in 1..Len(s) |-> s[i].id]

Occurs(s, x) == Cardinality({i \in 1..Len(s) : s[i] = x})

Remove(s, m) ==
    LET i == Min({j \in 1..Len(s) : s[j] = m})
    IN  SubSeq(s, 1, i - 1) \o SubSeq(s, i + 1, Len(s))

(***************************************************************************)
(* The broker: topology registry.                                          *)
(***************************************************************************)
Kinds == {"direct", "fanout", "topic"}

\* A generator that hands out one name again and again.
GenNameFixed(n) == "amq.gen-1"

\* The name the broker generates for the n-th queue declared with name "".
GenName(n) ==
    CASE n = 1 -> "amq.gen-1"
      [] n = 2 -> "amq.gen-2"
      [] n = 3 -> "amq.gen-3"
      [] n = 4 -> "amq.gen-4"
      [] n = 5 -> "amq.gen-5"
      [] n = 6 -> "amq.gen-6"
      [] n = 7 -> "amq.gen-7"
      [] OTHER -> "amq.gen-8"

\* A registry in which a declaration never conflicts: the last kind wins.
ExchangeConflictNever(name, kind) == FALSE

\* declare_exchange: idempotent, ConflictError on a different kind.
ExchangeConflict(name, kind) ==
    name \in DOMAIN exchanges /\ exchanges[name] # kind

ExchangeDeclared(name, kind) == Ext(exchanges, name, kind)

\* declare_queue: the name the declaration answers with.
DeclaredName(name) == IF name = "" THEN GenName(gen + 1) ELSE name

QueueAttrs(durable, exclusive, conn) ==
    [durable |-> durable, exclusive |-> exclusive,
     owner |-> IF exclusive THEN conn ELSE ""]

QueueConflict(name, durable, exclusive, conn) ==
    /\ name \in DOMAIN queues
    /\ queues[name] # QueueAttrs(durable, exclusive, conn)

\* bind: NotFoundError unless both endpoints are declared.
BindNotFound(queue, exchange) ==
    queue \notin DOMAIN queues \/ exchange \notin DOMAIN exchanges

\* A bind that replaces what the queue was bound by before.
BoundReplacing(queue, key, exchange) ==
    {b \in bindings : b.queue # queue}
      \cup {[queue |-> queue, exchange |-> exchange, key |-> key]}

Bound(queue, key, exchange) ==
    bindings \cup {[queue |-> queue, exchange |-> exchange, key |-> key]}

(***************************************************************************)
(* The broker: router.                                                     *)
(***************************************************************************)
\* A routing key or binding pattern cut at its dots.
Segments(key) ==
    CASE key = "" -> <<>>
      [] key = "#" -> <<"#">>
      [] key = "order.#" -> <<"order", "#">>
      [] key = "order.amazon.*" -> <<"order", "amazon", "*">>
      [] key = "order.trendyol.*" -> <<"order", "trendyol", "*">>
      [] key = "order.hepsiburada.*" -> <<"order", "hepsiburada", "*">>
      [] key = "order.amazon.us" -> <<"order", "amazon", "us">>
      [] key = "order.amazon.us.extra" -> <<"order", "amazon", "us", "extra">>
      [] key = "order.trendyol.tr" -> <<"order", "trendyol", "tr">>
      [] key = "order.hepsiburada.tr" -> <<"order", "hepsiburada", "tr">>
      [] key = "image.upload" -> <<"image", "upload">>
      [] key = "image.process" -> <<"image", "process">>
      [] key = "image.enhanced" -> <<"image", "enhanced">>
      [] key = "event.image_uploaded" -> <<"event", "image_uploaded">>
      [] key = "event.ai_enhanced" -> <<"event", "ai_enhanced">>
      [] key = "event.seo_generated" -> <<"event", "seo_generated">>
      [] key = "event.listed" -> <<"event", "listed">>
      [] OTHER -> <<key>>

RECURSIVE TopicMatch(_, _)
TopicMatch(p, k) ==
    IF p = <<>> THEN k = <<>>
    ELSE IF Head(p) = "#"
         THEN TopicMatch(Tail(p), k) \/ (k # <<>> /\ TopicMatch(p, Tail(k)))
         ELSE /\ k # <<>>
              /\ (Head(p) = "*" \/ Head(p) = Head(k))
              /\ TopicMatch(Tail(p), Tail(k))

KeyMatches(kind, pattern, key) ==
    CASE kind = "fanout" -> TRUE
      [] kind = "direct" -> pattern = key
      [] kind = "topic" -> TopicMatch(Segments(pattern), Segments(key))

\* route(exchange, routing_key): the set of destination queues.  The default
\* exchange "" routes to the queue named by the routing key.
Route(exchange, key) ==
    IF exchange = "" THEN {q \in DOMAIN queues : q = key}
    ELSE IF exchange \notin DOMAIN exchanges THEN {}
    ELSE {q \in DOMAIN queues :
            \E b \in bindings :
                /\ b.queue = q
                /\ b.exchange = exchange
                /\ KeyMatches(exchanges[exchange], b.key, key)}

(***************************************************************************)
(* The broker: delivery/acknowledgment tracker.  Its operators take and    *)
(* return a record of the delivery state, so that one program step can     *)
(* make several broker calls.                                              *)
(***************************************************************************)
Cur ==
    [consumers |-> consumers, ready |-> ready, unacked |-> unacked,
     msgs |-> msgs, rr |-> rr, enq |-> enq, dlog |-> dlog, lost |-> lost]

Becomes(d) ==
    \E e \in {d} :
        /\ consumers' = e.consumers
        /\ ready' = e.ready
        /\ unacked' = e.unacked
        /\ msgs' = e.msgs
        /\ rr' = e.rr
        /\ enq' = e.enq
        /\ dlog' = e.dlog
        /\ lost' = e.lost

\* A consumer can take one more delivery: auto-ack and prefetch 0 (no Qos
\* call) are unlimited.
HasCapacity(d, c) ==
    \/ d.consumers[c].autoAck
    \/ d.consumers[c].prefetch = 0
    \/ Len(d.unacked[c]) < d.consumers[c].prefetch

\* A dispatcher that prefers the consumer served most recently.
RECURSIVE DispatchQLast(_, _)
DispatchQLast(d, q) ==
    LET order == d.rr[q]
        able == {i \in 1..Len(order) : HasCapacity(d, order[i])}
    IN  IF d.ready[q] = <<>> \/ able = {} THEN d
        ELSE LET i == CHOOSE x \in able : \A y \in able : y <= x
                 c == order[i]
                 m == Head(d.ready[q])
             IN  DispatchQLast(
                   [d EXCEPT
                      !.ready[q] = Tail(@),
                      !.msgs[c] = Append(@, m),
                      !.unacked[c] = IF d.consumers[c].autoAck THEN @
                                     ELSE Append(@, m),
                      !.rr[q] = SubSeq(@, 1, i - 1)
                                  \o SubSeq(@, i + 1, Len(@)) \o <<c>>,
                      !.dlog[q] = Append(@, <<c, m.id>>)], q)

\* dispatch: while the queue holds a message and a consumer has capacity,
\* hand the head to the first such consumer in round-robin order.
RECURSIVE DispatchQ(_, _)
DispatchQ(d, q) ==
    LET order == d.rr[q]
        able == {i \in 1..Len(order) : HasCapacity(d, order[i])}
    IN  IF d.ready[q] = <<>> \/ able = {} THEN d
        ELSE LET i == Min(able)
                 c == order[i]
                 m == Head(d.ready[q])
             IN  DispatchQ(
                   [d EXCEPT
                      !.ready[q] = Tail(@),
                      !.msgs[c] = Append(@, m),
                      !.unacked[c] = IF d.consumers[c].autoAck THEN @
                                     ELSE Append(@, m),
                      !.rr[q] = SubSeq(@, 1, i - 1)
                                  \o SubSeq(@, i + 1, Len(@)) \o <<c>>,
                      !.dlog[q] = Append(@, <<c, m.id>>)], q)

\* Enqueue one copy of m at the tail of every queue of Q.
RECURSIVE EnqueueAll(_, _, _)
EnqueueAll(d, Q, m) ==
    IF Q = {} THEN d
    ELSE LET q == CHOOSE x \in Q : TRUE
         IN  EnqueueAll(
               DispatchQ([d EXCEPT !.ready[q] = Append(@, m),
                                   !.enq[q] = Append(@, m.id)], q),
               Q \ {q}, m)

\* A router that enqueues one copy for every binding that matches.
RECURSIVE EnqueueEach(_, _, _)
EnqueueEach(d, B, m) ==
    IF B = {} THEN d
    ELSE LET b == CHOOSE x \in B : TRUE
         IN  EnqueueEach(EnqueueAll(d, {b.queue}, m), B \ {b}, m)

PublishedPerBinding(d, exchange, key, m) ==
    IF exchange = "" \/ exchange \notin DOMAIN exchanges
    THEN EnqueueAll(d, Route(exchange, key), m)
    ELSE EnqueueEach(d, {b \in bindings :
                           /\ b.exchange = exchange
                           /\ b.queue \in DOMAIN queues
                           /\ KeyMatches(exchanges[exchange], b.key, key)}, m)

\* publish(exchange, routing_key, payload) with mandatory = false.
Published(d, exchange, key, m) == EnqueueAll(d, Route(exchange, key), m)

\* A declaration that empties the queue it names.
QueueAddedPurged(d, q) ==
    [d EXCEPT !.ready = Ext(@, q, <<>>), !.rr = Ext(@, q, <<>>),
              !.enq = Ext(@, q, <<>>), !.dlog = Ext(@, q, <<>>)]

\* A queue comes into being empty, with no consumer.
QueueAdded(d, q) ==
    IF q \in DOMAIN d.ready THEN d
    ELSE [d EXCEPT !.ready = Ext(@, q, <<>>), !.rr = Ext(@, q, <<>>),
                   !.enq = Ext(@, q, <<>>), !.dlog = Ext(@, q, <<>>)]

\* consume(queue, auto_ack, prefetch): registers consumer c.
Consuming(d, c, q, autoAck, prefetch, conn) ==
    DispatchQ(
      [d EXCEPT
         !.consumers = Ext(@, c, [queue |-> q, autoAck |-> autoAck,
                                  prefetch |-> prefetch, conn |-> conn]),
         !.unacked = Ext(@, c, <<>>),
         !.msgs = Ext(@, c, <<>>),
         !.rr[q] = Append(@, c)], q)

\* ack(tag): the delivery is gone for good; redispatch.
Acked(d, c, m) ==
    DispatchQ([d EXCEPT !.unacked[c] = Remove(@, m)], d.consumers[c].queue)

\* nack(tag, requeue): back to the head of the queue, or discarded.
Nacked(d, c, m, requeue) ==
    LET q == d.consumers[c].queue
    IN  DispatchQ(
          [d EXCEPT !.unacked[c] = Remove(@, m),
                    !.ready[q] = IF requeue THEN <<m>> \o @ ELSE @], q)

\* The consumer's goroutine takes the next delivery off its channel.
Received(d, c) == [d EXCEPT !.msgs[c] = Tail(@)]

\* A consumer goes away: its outstanding manual-ack deliveries return to
\* the head of the queue; what sat unhandled in an auto-ack consumer's
\* channel is gone.
Cancelled(d, c) ==
    LET q == d.consumers[c].queue
    IN  [d EXCEPT
           !.ready[q] = d.unacked[c] \o @,
           !.rr[q] = SelectSeq(@, LAMBDA x : x # c),
           !.lost = IF d.consumers[c].autoAck
                    THEN @ \cup {<<q, d.msgs[c][i].id>> :
                                     i \in 1..Len(d.msgs[c])}
                    ELSE @,
           !.consumers = Drop(@, {c}),
           !.unacked = Drop(@, {c}),
           !.msgs = Drop(@, {c})]

RECURSIVE CancelledAll(_, _)
CancelledAll(d, C) ==
    IF C = {} THEN d
    ELSE LET c == CHOOSE x \in C : TRUE
         IN  CancelledAll(Cancelled(d, c), C \ {c})

RECURSIVE DispatchAll(_, _)
DispatchAll(d, Q) ==
    IF Q = {} THEN d
    ELSE LET q == CHOOSE x \in Q : TRUE
         IN  DispatchAll(DispatchQ(d, q), Q \ {q})

ExclusiveQueues(conn) ==
    {q \in DOMAIN queues : queues[q].exclusive /\ queues[q].owner = conn}

\* The connection closes: its consumers are cancelled, its exclusive queues
\* are deleted with their contents, and the surviving queues redispatch.
Closed(d, conn) ==
    LET C == {c \in DOMAIN d.consumers : d.consumers[c].conn = conn}
        X == ExclusiveQueues(conn)
        d1 == CancelledAll(d, C)
        d2 == [d1 EXCEPT !.ready = Drop(@, X), !.rr = Drop(@, X)]
    IN  DispatchAll(d2, DOMAIN d2.ready)

\* The topology after the connection closed.
CloseTopology(conn) ==
    /\ queues' = Drop(queues, ExclusiveQueues(conn))
    /\ bindings' = {b \in bindings : b.queue \notin ExclusiveQueues(conn)}
    /\ UNCHANGED <<exchanges, gen>>

(***************************************************************************)
(* What all programs share.                                                *)
(***************************************************************************)
EmptyBroker ==
    /\ exchanges = <<>>
    /\ queues = <<>>
    /\ bindings = {}
    /\ gen = 0
    /\ consumers = <<>>
    /\ ready = <<>>
    /\ unacked = <<>>
    /\ msgs = <<>>
    /\ rr = <<>>
    /\ enq = <<>>
    /\ dlog = <<>>
    /\ lost = {}
    /\ pubs = <<>>

At(p, label) == pc[p] = label

Goto(p, label) == pc' = [pc EXCEPT ![p] = label]

\* The process ends (return from main, panic, log.Fatal, CTRL+C): the
\* deferred conn.Close() or the operating system closes its connection.
Exit(p) ==
    /\ Becomes(Closed(Cur, p))
    /\ CloseTopology(p)
    /\ Goto(p, "exited")

\* ch.ExchangeDeclare(name, kind, ...) followed by failOnError.
DeclareExchangeOrPanic(p, name, kind, next) ==
    IF ExchangeConflict(name, kind)
    THEN Exit(p)
    ELSE /\ exchanges' = ExchangeDeclared(name, kind)
         /\ Goto(p, next)
         /\ UNCHANGED <<queues, bindings, gen, delivery>>

\* q, err := ch.QueueDeclare(name, durable, false, exclusive, ...) followed
\* by failOnError; q.Name is kept in local[p].q.
DeclareQueueOrPanic(p, name, durable, exclusive, next) ==
    LET q == DeclaredName(name)
    IN  IF QueueConflict(q, durable, exclusive, p)
        THEN Exit(p) /\ UNCHANGED local
        ELSE /\ queues' = Ext(queues, q, QueueAttrs(durable, exclusive, p))
             /\ gen' = IF name = "" THEN gen + 1 ELSE gen
             /\ Becomes(QueueAdded(Cur, q))
             /\ local' = [local EXCEPT ![p].q = q]
             /\ Goto(p, next)
             /\ UNCHANGED <<exchanges, bindings>>

\* ch.QueueBind(queue, key, exchange, ...) followed by failOnError.
BindOrPanic(p, queue, key, exchange, next) ==
    IF BindNotFound(queue, exchange)
    THEN Exit(p)
    ELSE /\ bindings' = Bound(queue, key, exchange)
         /\ Goto(p, next)
         /\ UNCHANGED <<exchanges, queues, gen, delivery>>

Message(key, body) == [id |-> sent + 1, key |-> key, body |-> body]

\* ch.PublishWithContext(ctx, exchange, key, false, false, {Body: body}).
Publish(exchange, key, body) ==
    /\ Becomes(Published(Cur, exchange, key, Message(key, body)))
    /\ pubs' = Append(pubs, [exchange |-> exchange, key |-> key])

\* The goroutine of a consumer takes the next delivery off its channel,
\* runs the handler and answers the broker: d.Ack(false), d.Nack(false, true),
\* d.Nack(false, false), or nothing.
Responded(d, c, m, response) ==
    CASE response = "ack" -> Acked(d, c, m)
      [] response = "nack_requeue" -> Nacked(d, c, m, TRUE)
      [] response = "nack" -> Nacked(d, c, m, FALSE)
      [] OTHER -> d

Handle(p, c, response) ==
    /\ msgs[c] # <<>>
    /\ LET m == Head(msgs[c])
       IN  /\ Becomes(Responded(Received(Cur, c), c, m, response))
           /\ handled' = [handled EXCEPT ![p] = Append(@, <<m.id, response>>)]

(***************************************************************************)
(* examples/pub-sub: the news publisher and its subscribers.               *)
(***************************************************************************)
MaxNews == 2

News == {"headline", "weather"}

Subscribers == {"s1", "s2"}

NewsExchange == "news_broadcast"

\* The exchange the publisher publishes to.
PublishTargetDefault == ""

PublishTarget == "news_broadcast"

\* The exchange a subscriber binds its queue to.
SubscriberExchange == "news_broadcast"

\* The exclusive argument of the subscriber's ch.QueueDeclare.
SubscriberExclusiveOff == FALSE

SubscriberExclusive == TRUE

InitPubSub ==
    /\ EmptyBroker
    /\ pc = [p \in {"pub"} \cup Subscribers |->
               IF p = "pub" THEN "declare" ELSE "declare_exchange"]
    /\ local = [p \in {"pub"} \cup Subscribers |-> [q |-> ""]]
    /\ handled = [p \in {"pub"} \cup Subscribers |-> <<>>]

PubDeclare ==
    /\ At("pub", "declare")
    /\ DeclareExchangeOrPanic("pub", NewsExchange, "fanout", "loop")
    /\ UNCHANGED <<local, handled, pubs>>

\* One turn of the input loop with a line that is not "quit".
PubPublish(news) ==
    /\ At("pub", "loop")
    /\ sent < MaxNews
    /\ Publish(PublishTarget, "", news)
    /\ UNCHANGED <<topology, pc, local, handled>>

PubQuit ==
    /\ At("pub", "loop")
    /\ Exit("pub")
    /\ UNCHANGED <<local, handled, pubs>>

SubDeclareExchange(s) ==
    /\ At(s, "declare_exchange")
    /\ DeclareExchangeOrPanic(s, SubscriberExchange, "fanout", "declare_queue")
    /\ UNCHANGED <<local, handled, pubs>>

SubDeclareQueue(s) ==
    /\ At(s, "declare_queue")
    /\ DeclareQueueOrPanic(s, "", FALSE, SubscriberExclusive, "bind")
    /\ UNCHANGED <<handled, pubs>>

SubBind(s) ==
    /\ At(s, "bind")
    /\ BindOrPanic(s, local[s].q, "", SubscriberExchange, "consume")
    /\ UNCHANGED <<local, handled, pubs>>

SubConsume(s) ==
    /\ At(s, "consume")
    /\ Becomes(Consuming(Cur, s, local[s].q, TRUE, 0, s))
    /\ Goto(s, "receive")
    /\ UNCHANGED <<topology, local, handled, pubs>>

\* for d := range msgs { log.Printf(...) }
SubReceive(s) ==
    /\ At(s, "receive")
    /\ msgs[s] # <<>>
    /\ Becomes(Received(Cur, s))
    /\ handled' = [handled EXCEPT ![s] = Append(@, <<Head(msgs[s]).id, "auto">>)]
    /\ UNCHANGED <<topology, pc, local, pubs>>

\* CTRL+C.
SubExit(s) ==
    /\ ~At(s, "exited")
    /\ Exit(s)
    /\ UNCHANGED <<local, handled, pubs>>

NextPubSub ==
    \/ PubDeclare
    \/ \E news \in News : PubPublish(news)
    \/ PubQuit
    \/ \E s \in Subscribers :
         \/ SubDeclareExchange(s)
         \/ SubDeclareQueue(s)
         \/ SubBind(s)
         \/ SubConsume(s)
         \/ SubReceive(s)
         \/ SubExit(s)

SpecPubSub == InitPubSub /\ [][NextPubSub]_vars

\* Copies of message id held for queue q: waiting in the queue or handed to
\* one of its consumers and not yet handled.
Copies(d, q, id) ==
    LET C == {c \in DOMAIN d.consumers : d.consumers[c].queue = q}
        n[S \in SUBSET C] ==
            IF S = {} THEN 0
            ELSE LET c == CHOOSE x \in S : TRUE
                 IN  Occurs(Ids(d.msgs[c]), id) + n[S \ {c}]
    IN  Occurs(Ids(d.ready[q]), id) + n[C]

\* The queues of the subscribers that have bound them.
SubscriberQueues ==
    {local[s].q : s \in {x \in Subscribers : pc[x] \in {"consume", "receive"}}}

\* C1: a publish to the fanout exchange news_broadcast puts exactly one copy
\* into every subscriber queue bound at that time and none into any other
\* queue.
FanoutCompleteness ==
    [][pubs' # pubs =>
         \A q \in DOMAIN queues :
            /\ Copies(Cur', q, sent + 1) =
                 IF q \in SubscriberQueues THEN 1 ELSE 0
            /\ enq'[q] = IF q \in SubscriberQueues
                         THEN Append(enq[q], sent') ELSE enq[q]]_vars

FanoutWitness ==
    /\ sent = MaxNews
    /\ \E s \in Subscribers, t \in Subscribers :
         /\ pc[s] = "receive" /\ enq[local[s].q] = <<1, 2>>
         /\ pc[t] = "receive" /\ enq[local[t].q] = <<2>>

(***************************************************************************)
(* examples/routing: the log producer and the log consumers.               *)
(***************************************************************************)
MaxLogs == 2

\* What the user types as the level of a log line.
InputLevels == {"info", "error", "ERROR"}

ValidLevels == {"info", "warning", "error", "debug"}

LogConsumers == {"l1", "l2"}

\* The log levels a consumer is started with (os.Args[1:]).
LevelArgs == {<<"error">>, <<"info", "error">>, <<"ERROR">>}

\* The routing key a consumer binds its queue with for one of its levels.
BindKeyIgnored(level) == ""

BindKey(level) == level

InitRouting ==
    /\ EmptyBroker
    /\ pc = [p \in {"logger"} \cup LogConsumers |->
               IF p = "logger" THEN "declare" ELSE "declare_exchange"]
    /\ local \in [{"logger"} \cup LogConsumers ->
                    [q : {""}, levels : LevelArgs, i : {1}]]
    /\ local["logger"].levels = <<"error">>
    /\ handled = [p \in {"logger"} \cup LogConsumers |-> <<>>]

LogDeclare ==
    /\ At("logger", "declare")
    /\ DeclareExchangeOrPanic("logger", "logs_direct", "direct", "loop")
    /\ UNCHANGED <<local, handled, pubs>>

\* One turn of the input loop with a line "level:message": an invalid level
\* is refused and nothing is published.
LogPublish(level) ==
    /\ At("logger", "loop")
    /\ sent < MaxLogs
    /\ IF level \in ValidLevels
       THEN Publish("logs_direct", level, "message")
       ELSE UNCHANGED <<delivery, pubs>>
    /\ UNCHANGED <<topology, pc, local, handled>>

LogQuit ==
    /\ At("logger", "loop")
    /\ Exit("logger")
    /\ UNCHANGED <<local, handled, pubs>>

ConDeclareExchange(c) ==
    /\ At(c, "declare_exchange")
    /\ DeclareExchangeOrPanic(c, "logs_direct", "direct", "declare_queue")
    /\ UNCHANGED <<local, handled, pubs>>

ConDeclareQueue(c) ==
    /\ At(c, "declare_queue")
    /\ DeclareQueueOrPanic(c, "", FALSE, TRUE, "bind")
    /\ UNCHANGED <<handled, pubs>>

\* for _, level := range levels { ch.QueueBind(q.Name, level, "logs_direct") }
ConBind(c) ==
    /\ At(c, "bind")
    /\ local[c].i <= Len(local[c].levels)
    /\ BindOrPanic(c, local[c].q, BindKey(local[c].levels[local[c].i]),
                   "logs_direct", "bind")
    /\ local' = [local EXCEPT ![c].i = @ + 1]
    /\ UNCHANGED <<handled, pubs>>

ConConsume(c) ==
    /\ At(c, "bind")
    /\ local[c].i > Len(local[c].levels)
    /\ Becomes(Consuming(Cur, c, local[c].q, TRUE, 0, c))
    /\ Goto(c, "receive")
    /\ UNCHANGED <<topology, local, handled, pubs>>

ConReceive(c) ==
    /\ At(c, "receive")
    /\ msgs[c] # <<>>
    /\ Becomes(Received(Cur, c))
    /\ handled' = [handled EXCEPT ![c] = Append(@, <<Head(msgs[c]).id, "auto">>)]
    /\ UNCHANGED <<topology, pc, local, pubs>>

ConExit(c) ==
    /\ ~At(c, "exited")
    /\ Exit(c)
    /\ UNCHANGED <<local, handled, pubs>>

NextRouting ==
    \/ LogDeclare
    \/ \E level \in InputLevels : LogPublish(level)
    \/ LogQuit
    \/ \E c \in LogConsumers :
         \/ ConDeclareExchange(c)
         \/ ConDeclareQueue(c)
         \/ ConBind(c)
         \/ ConConsume(c)
         \/ ConReceive(c)
         \/ ConExit(c)

SpecRouting == InitRouting /\ [][NextRouting]_vars

\* The levels a log consumer has bound its queue for so far.
BoundLevels(c) == {local[c].levels[j] : j \in 1..(local[c].i - 1)}

\* The queues of the running log consumers that are bound for level k.
QueuesFor(k) ==
    {local[c].q : c \in {x \in LogConsumers :
                           pc[x] \in {"bind", "receive"} /\ k \in BoundLevels(x)}}

\* C2: a publish with routing key k to the direct exchange logs_direct puts
\* one copy into exactly the queues that have a binding whose key equals k,
\* and nothing into a queue bound only to other keys.
DirectExactness ==
    [][pubs' # pubs =>
         LET k == pubs'[Len(pubs')].key
         IN  \A q \in DOMAIN queues :
                /\ Copies(Cur', q, sent + 1) = IF q \in QueuesFor(k) THEN 1 ELSE 0
                /\ enq'[q] = IF q \in QueuesFor(k)
                             THEN Append(enq[q], sent + 1) ELSE enq[q]]_vars

DirectWitness ==
    /\ sent > 0
    /\ pubs[sent].key = "error"
    /\ \E c \in LogConsumers, e \in LogConsumers :
         /\ pc[c] = "receive" /\ local[c].levels = <<"info", "error">>
         /\ enq[local[c].q] = <<sent>>
         /\ pc[e] = "receive" /\ local[e].levels = <<"ERROR">>
         /\ local[e].q \in DOMAIN queues
         /\ enq[local[e].q] = <<>>

(***************************************************************************)
(* Topic routing: the matching of a routing key against a binding pattern, *)
(* applied to bounded keys and patterns and to the patterns and keys of    *)
(* the Stox order services.                                                *)
(***************************************************************************)
MaxKeyLen == 3

MaxPatLen == 3

KeyWords == {"order", "amazon", "us"}

PatWords == {"order", "amazon", "*", "#"}

SeqsUpTo(S, n) == UNION {[1..m -> S] : m \in 0..n}

Marketplaces == {"amazon", "trendyol", "hepsiburada"}

Countries == {"USA", "Turkey", "Germany", "Japan"}

\* The binding pattern of a marketplace service's orders queue.
OrdersPatternNoWildcard(marketplace) == <<"order", marketplace>>

OrdersPattern(marketplace) == <<"order", marketplace, "*">>

getRegionCode(country) ==
    CASE country \in {"USA", "Canada"} -> "us"
      [] country = "Turkey" -> "tr"
      [] country \in {"Germany", "France", "Italy", "Spain"} -> "eu"
      [] OTHER -> "intl"

\* routingKey := fmt.Sprintf("order.%s.%s", order.Marketplace, region code)
OrderRoutingKey(marketplace, country) ==
    <<"order", marketplace, getRegionCode(country)>>

ExamplePatterns ==
    {"order.amazon.*", "order.#", "order.amazon.us", "#", "order.trendyol.*",
     "order.amazon.us.extra"}

ExampleKeys == {"order.amazon.us", "order.amazon.us.extra"}

TopicPatterns ==
    SeqsUpTo(PatWords, MaxPatLen)
      \cup {Segments(x) : x \in ExamplePatterns}
      \cup {OrdersPattern(m) : m \in Marketplaces}

TopicKeys ==
    SeqsUpTo(KeyWords, MaxKeyLen)
      \cup {Segments(x) : x \in ExampleKeys}
      \cup {OrderRoutingKey(m, c) : m \in Marketplaces, c \in Countries}

InitTopic ==
    /\ EmptyBroker
    /\ pc = [p \in {"router"} |-> "route"]
    /\ local \in [{"router"} ->
                    [pattern : TopicPatterns, key : TopicKeys, matched : {FALSE}]]
    /\ handled = [p \in {"router"} |-> <<>>]

\* The topic exchange decides whether the binding receives the message.
TopicRoute ==
    /\ At("router", "route")
    /\ local' = [local EXCEPT !["router"].matched =
                   TopicMatch(local["router"].pattern, local["router"].key)]
    /\ Goto("router", "routed")
    /\ UNCHANGED <<topology, delivery, handled, pubs>>

NextTopic == TopicRoute

SpecTopic == InitTopic /\ [][NextTopic]_vars

\* The reference rule: Reach[i] holds the lengths j for which the first i
\* pattern segments match the first j key segments; a literal consumes the
\* one equal segment, * consumes any one segment, # consumes zero or more.
ReferenceMatch(p, k) ==
    LET Reach[i \in 0..Len(p)] ==
            IF i = 0 THEN {0}
            ELSE IF p[i] = "#"
                 THEN {j \in 0..Len(k) : \E j0 \in Reach[i - 1] : j0 <= j}
                 ELSE {j \in 1..Len(k) :
                         /\ j - 1 \in Reach[i - 1]
                         /\ (p[i] = "*" \/ p[i] = k[j])}
    IN  Len(k) \in Reach[Len(p)]

Matches(pattern, key) == KeyMatches("topic", pattern, key)

\* C3: topic matching agrees with the reference rule on every bounded key
\* and pattern; order.amazon.us matches order.amazon.*, order.#,
\* order.amazon.us and #, and matches neither order.trendyol.* nor
\* order.amazon.us.extra; an order routed by the demo matches the orders
\* pattern of its own marketplace only.
TopicWildcardMatching ==
    /\ At("router", "routed") =>
         LET r == local["router"]
         IN  /\ r.matched = ReferenceMatch(r.pattern, r.key)
             /\ \A m \in Marketplaces, o \in Marketplaces, c \in Countries :
                    r.pattern = OrdersPattern(m) /\ r.key = OrderRoutingKey(o, c)
                      => r.matched = (m = o)
    /\ Matches("order.amazon.*", "order.amazon.us")
    /\ Matches("order.#", "order.amazon.us")
    /\ Matches("order.amazon.us", "order.amazon.us")
    /\ Matches("#", "order.amazon.us")
    /\ ~Matches("order.trendyol.*", "order.amazon.us")
    /\ ~Matches("order.amazon.us.extra", "order.amazon.us")
    /\ ~Matches("order.amazon.*", "order.amazon.us.extra")

TopicWitness ==
    /\ At("router", "routed")
    /\ local["router"].pattern = OrdersPattern("amazon")
    /\ local["router"].key = OrderRoutingKey("amazon", "USA")
    /\ local["router"].matched

(***************************************************************************)
(* examples: the work queue producer and its workers.                      *)
(***************************************************************************)
MaxTasks == 3

Workers == {"w1", "w2"}

\* ch.Qos(1, 0, false)
WorkerPrefetchUnlimited == 1 - 1

WorkerPrefetch == 1

\* The auto-ack argument of the worker's ch.Consume.
WorkerAutoAckOn == TRUE

WorkerAutoAck == FALSE

\* What the worker answers when the task is done.
WorkerResponseRequeue == "nack_requeue"

WorkerResponse == "ack"

InitWorkQueue ==
    /\ EmptyBroker
    /\ pc = [p \in {"producer"} \cup Workers |-> "declare_queue"]
    /\ local = [p \in {"producer"} \cup Workers |-> [q |-> "", prefetch |-> 0]]
    /\ handled = [p \in {"producer"} \cup Workers |-> <<>>]

ProducerDeclare ==
    /\ At("producer", "declare_queue")
    /\ DeclareQueueOrPanic("producer", "task_queue", TRUE, FALSE, "loop")
    /\ UNCHANGED <<handled, pubs>>

\* One turn of the input loop with a task that is not "quit".
ProducerPublish ==
    /\ At("producer", "loop")
    /\ sent < MaxTasks
    /\ Publish("", local["producer"].q, "task")
    /\ UNCHANGED <<topology, pc, local, handled>>

ProducerQuit ==
    /\ At("producer", "loop")
    /\ Exit("producer")
    /\ UNCHANGED <<local, handled, pubs>>

WorkerDeclare(w) ==
    /\ At(w, "declare_queue")
    /\ DeclareQueueOrPanic(w, "task_queue", TRUE, FALSE, "qos")
    /\ UNCHANGED <<handled, pubs>>

WorkerQos(w) ==
    /\ At(w, "qos")
    /\ local' = [local EXCEPT ![w].prefetch = WorkerPrefetch]
    /\ Goto(w, "consume")
    /\ UNCHANGED <<topology, delivery, handled, pubs>>

WorkerConsume(w) ==
    /\ At(w, "consume")
    /\ Becomes(Consuming(Cur, w, local[w].q, WorkerAutoAck, local[w].prefetch, w))
    /\ Goto(w, "receive")
    /\ UNCHANGED <<topology, local, handled, pubs>>

\* for d := range msgs { time.Sleep(...); d.Ack(false) }
WorkerHandle(w) ==
    /\ At(w, "receive")
    /\ Handle(w, w, WorkerResponse)
    /\ UNCHANGED <<topology, pc, local, pubs>>

\* CTRL+C, or the worker is killed.
WorkerExit(w) ==
    /\ ~At(w, "exited")
    /\ Exit(w)
    /\ UNCHANGED <<local, handled, pubs>>

NextWorkQueue ==
    \/ ProducerDeclare
    \/ ProducerPublish
    \/ ProducerQuit
    \/ \E w \in Workers :
         \/ WorkerDeclare(w)
         \/ WorkerQos(w)
         \/ WorkerConsume(w)
         \/ WorkerHandle(w)
         \/ WorkerExit(w)

SpecWorkQueue == InitWorkQueue /\ [][NextWorkQueue]_vars

\* A worker that has a delivery handles it and answers after a finite sleep.
SpecWorkQueueFair ==
    SpecWorkQueue /\ \A w \in Workers : WF_vars(WorkerHandle(w))

\* The ids of the deliveries consumer c holds unacknowledged.
Held(c) == {unacked[c][i].id : i \in 1..Len(unacked[c])}

\* The ids waiting in queue q.
Waiting(q) == {ready[q][i].id : i \in 1..Len(ready[q])}

\* C4: a manual-ack consumer with prefetch P holds at most P unacknowledged
\* deliveries; a work-queue worker never holds a second task.
PrefetchBound ==
    /\ \A c \in DOMAIN consumers :
          ~consumers[c].autoAck /\ consumers[c].prefetch > 0
            => Len(unacked[c]) <= consumers[c].prefetch
    /\ \A w \in Workers :
          w \in DOMAIN consumers => Len(unacked[w]) <= 1 /\ Len(msgs[w]) <= 1

PrefetchWitness ==
    \E w \in Workers :
        /\ w \in DOMAIN consumers
        /\ Len(unacked[w]) = 1
        /\ ready["task_queue"] # <<>>

\* The ids present anywhere in the broker or in a consumer's channel.
Present ==
    UNION {Waiting(q) : q \in DOMAIN ready}
      \cup UNION {Held(c) : c \in DOMAIN consumers}
      \cup UNION {{msgs[c][i].id : i \in 1..Len(msgs[c])} : c \in DOMAIN consumers}

\* The ids process p has run its handler on and answered for.
Answered(p) == {handled[p][i][1] : i \in 1..Len(handled[p])}

\* How often queue q dispatched message id.
Dispatches(q, id) ==
    Cardinality({i \in 1..Len(dlog[q]) : dlog[q][i][2] = id})

DeliveredTo(q, c, id) == \E i \in 1..Len(dlog[q]) : dlog[q][i] = <<c, id>>

NoWorkerExited == \A w \in Workers : pc[w] # "exited"

\* C5: when a worker disconnects, the tasks it held unacknowledged are back
\* in task_queue or with another worker, no published task is ever lost, and
\* a requeued task is eventually held by a worker unless none is registered.
CrashRequeue ==
    /\ [](\A id \in 1..sent :
            \/ id \in Waiting("task_queue")
            \/ \E w \in Workers : w \in DOMAIN consumers /\ id \in Held(w)
            \/ \E w \in Workers : id \in Answered(w))
    /\ [][\A w \in Workers :
            w \in DOMAIN consumers /\ pc'[w] = "exited" =>
              \A id \in Held(w) :
                 \/ id \in Waiting("task_queue")'
                 \/ \E v \in Workers \ {w} :
                       (v \in DOMAIN consumers /\ id \in Held(v))']_vars
    /\ \A id \in 1..MaxTasks :
          (/\ id \in 1..sent
           /\ id \in Waiting("task_queue")
           /\ \E w \in Workers :
                pc[w] = "exited" /\ DeliveredTo("task_queue", w, id))
            ~> (\/ \E v \in Workers : v \in DOMAIN consumers /\ id \in Held(v)
                \/ \A v \in Workers : v \notin DOMAIN consumers)

CrashRequeueWitness ==
    \E id \in 1..sent, w \in Workers, v \in Workers :
        /\ pc[w] = "exited"
        /\ DeliveredTo("task_queue", w, id)
        /\ v \in DOMAIN consumers
        /\ id \in Held(v)
        /\ Dispatches("task_queue", id) = 2

\* C7: a task is held unacknowledged by at most one worker at a time and is
\* handled at most once by one worker; as long as no worker has disconnected,
\* every published task has been dispatched exactly once or still waits.
CompetingConsumers ==
    /\ \A c \in DOMAIN consumers, e \in DOMAIN consumers :
          c # e => Held(c) \cap Held(e) = {}
    /\ \A w \in Workers, v \in Workers :
          w # v => Answered(w) \cap Answered(v) = {}
    /\ \A w \in Workers :
          Cardinality(Answered(w)) = Len(handled[w])
    /\ NoWorkerExited =>
          \A id \in 1..sent :
             IF id \in Waiting("task_queue")
             THEN Dispatches("task_queue", id) = 0
             ELSE Dispatches("task_queue", id) = 1

CompetingWitness ==
    /\ NoWorkerExited
    /\ sent = 3
    /\ Workers \subseteq DOMAIN consumers
    /\ Answered("w1") = {1}
    /\ Held("w2") = {2}
    /\ Held("w1") = {3}

\* C8: a worker's ack lowers its unacked count by one and, when a task is
\* waiting, the head of the queue is dispatched to that worker at once; a
\* task a worker has answered for is in no queue and with no consumer.
AckRemoves ==
    [][/\ \A w \in Workers :
            handled'[w] # handled[w] =>
              LET m == Head(msgs[w])
                  q == consumers[w].queue
              IN  /\ m = Head(unacked[w])
                  /\ IF ready[q] = <<>>
                     THEN /\ unacked'[w] = Tail(unacked[w])
                          /\ Len(unacked'[w]) = Len(unacked[w]) - 1
                          /\ ready'[q] = <<>>
                     ELSE /\ unacked'[w] = Tail(unacked[w]) \o <<Head(ready[q])>>
                          /\ ready'[q] = Tail(ready[q])
                          /\ dlog'[q] = Append(dlog[q], <<w, Head(ready[q]).id>>)
       /\ \A w \in Workers : (Answered(w) \cap Present = {})']_vars

AckWitness ==
    \E w \in Workers :
        /\ handled[w] = <<<<1, "ack">>>>
        /\ w \in DOMAIN consumers
        /\ Held(w) = {3}
        /\ dlog["task_queue"][Len(dlog["task_queue"])] = <<w, 3>>

(***************************************************************************)
(* docker: the order producer and the workers of                           *)
(* internal/rabbitmq/client.go.                                            *)
(***************************************************************************)
MaxOrders == 2

\* How often a processor's handler may fail.
MaxNacks == 1

DockerWorkers == {"k1", "k2"}

\* WORKER_TYPE of a worker container.
WorkerTypes ==
    {"processor", "inventory", "fulfillment_US", "fulfillment_", "shipping"}

\* order.Region after parseOrder.
Regions == {"US", "EU"}

HandlerResults == {"ok", "error"}

\* A test of the prefix alone: workerType[:12] == "fulfillment_".
IsFulfillmentPrefix(workerType) ==
    workerType \in {"fulfillment_US", "fulfillment_EU", "fulfillment_"}

\* len(workerType) > 12 && workerType[:12] == "fulfillment_"
IsFulfillment(workerType) == workerType \in {"fulfillment_US", "fulfillment_EU"}

\* region := workerType[12:]
RegionOf(workerType) ==
    CASE workerType = "fulfillment_US" -> "US"
      [] workerType = "fulfillment_EU" -> "EU"
      [] OTHER -> ""

\* A queue of its own for every fulfillment worker.
FulfillmentQueuePerWorker(region, w) == "fulfillment_" \o region \o "." \o w

\* The queue of c.ch.QueueDeclare("fulfillment_"+region, ...): the same name
\* for every worker w of the region.
FulfillmentQueue(region, w) == "fulfillment_" \o region

\* The requeue argument of the processor's d.Nack(false, true).
ProcessorRequeueOff == FALSE

ProcessorRequeue == TRUE

\* The auto-ack argument of the notification and fulfillment Consume calls.
NotifyAutoAckOff == FALSE

NotifyAutoAck == TRUE

InitDocker ==
    /\ EmptyBroker
    /\ pc = [p \in {"producer"} \cup DockerWorkers |-> "setup"]
    /\ local \in [{"producer"} \cup DockerWorkers ->
                    [q : {""}, type : WorkerTypes \cup {"producer"},
                     region : {""}, nacks : {0}]]
    /\ local["producer"].type = "producer"
    /\ \A w \in DockerWorkers : local[w].type \in WorkerTypes
    /\ handled = [p \in {"producer"} \cup DockerWorkers |-> <<>>]

\* SetupExchangesAndQueues, and log.Fatalf in main when it returns an error.
SetupExchangesAndQueues(p) ==
    /\ At(p, "setup")
    /\ IF \/ QueueConflict("order_processing", TRUE, FALSE, p)
          \/ ExchangeConflict("order_notifications", "fanout")
          \/ ExchangeConflict("regional_fulfillment", "direct")
       THEN Exit(p)
       ELSE /\ queues' = Ext(queues, "order_processing",
                             QueueAttrs(TRUE, FALSE, p))
            /\ exchanges' = Ext(Ext(exchanges, "order_notifications", "fanout"),
                                "regional_fulfillment", "direct")
            /\ Becomes(QueueAdded(Cur, "order_processing"))
            /\ Goto(p, IF p = "producer" THEN "loop" ELSE "consume")
            /\ UNCHANGED <<bindings, gen>>
    /\ UNCHANGED <<local, handled, pubs>>

\* PublishOrder, 1: the order goes to the work queue.
PublishOrderWork(region) ==
    /\ At("producer", "loop")
    /\ sent < 3 * MaxOrders
    /\ Publish("", "order_processing", "order")
    /\ local' = [local EXCEPT !["producer"].region = region]
    /\ Goto("producer", "notify")
    /\ UNCHANGED <<topology, handled>>

\* PublishOrder, 2: the order is broadcast.
PublishOrderNotify ==
    /\ At("producer", "notify")
    /\ Publish("order_notifications", "", "order")
    /\ Goto("producer", "route")
    /\ UNCHANGED <<topology, local, handled>>

\* PublishOrder, 3: the order is routed by region.
PublishOrderRegion ==
    /\ At("producer", "route")
    /\ Publish("regional_fulfillment", local["producer"].region, "order")
    /\ Goto("producer", "loop")
    /\ UNCHANGED <<topology, local, handled>>

ProducerExit ==
    /\ At("producer", "loop")
    /\ Exit("producer")
    /\ UNCHANGED <<local, handled, pubs>>

\* The prefetch count of the processor's c.ch.Qos(1, 0, false).
ProcessorPrefetchUnlimited == 1 - 1

ProcessorPrefetch == 1

\* ConsumeOrders(workerType, handler) up to the start of its goroutine.
ConsumeOrders(w) ==
    /\ At(w, "consume")
    /\ LET workerType == local[w].type
       IN  CASE workerType = "processor" ->
                  /\ Becomes(Consuming(Cur, w, "order_processing", FALSE,
                                       ProcessorPrefetch, w))
                  /\ local' = [local EXCEPT ![w].q = "order_processing"]
                  /\ UNCHANGED topology
             [] workerType \in {"inventory", "email", "analytics"} ->
                  LET q == GenName(gen + 1)
                  IN  /\ queues' = Ext(queues, q, QueueAttrs(FALSE, TRUE, w))
                      /\ gen' = gen + 1
                      /\ bindings' = bindings \cup
                           {[queue |-> q, key |-> "",
                             exchange |-> "order_notifications"]}
                      /\ Becomes(Consuming(QueueAdded(Cur, q), w, q,
                                           NotifyAutoAck, 0, w))
                      /\ local' = [local EXCEPT ![w].q = q]
                      /\ UNCHANGED exchanges
             [] IsFulfillment(workerType) ->
                  LET q == FulfillmentQueue(RegionOf(workerType), w)
                  IN  /\ queues' = Ext(queues, q, QueueAttrs(FALSE, FALSE, w))
                      /\ bindings' = bindings \cup
                           {[queue |-> q, key |-> RegionOf(workerType),
                             exchange |-> "regional_fulfillment"]}
                      /\ Becomes(Consuming(QueueAdded(Cur, q), w, q,
                                           NotifyAutoAck, 0, w))
                      /\ local' = [local EXCEPT ![w].q = q]
                      /\ UNCHANGED <<exchanges, gen>>
             [] OTHER -> UNCHANGED <<topology, delivery, local>>
    /\ Goto(w, "receive")
    /\ UNCHANGED <<handled, pubs>>

\* A goroutine that rejects a body it cannot decode.
OrderResponseReject(workerType, body, result) ==
    CASE body # "order" -> IF workerType = "processor" THEN "nack" ELSE "none"
      [] result = "error" ->
            IF workerType = "processor" THEN "nack_requeue" ELSE "none"
      [] OTHER -> IF workerType = "processor" THEN "ack" ELSE "none"

\* What the goroutine answers for a delivery.
OrderResponse(workerType, body, result) ==
    CASE body # "order" -> "none"
      [] result = "error" ->
            IF workerType = "processor"
            THEN IF ProcessorRequeue THEN "nack_requeue" ELSE "nack"
            ELSE "none"
      [] OTHER -> IF workerType = "processor" THEN "ack" ELSE "none"

\* One turn of the goroutine of ConsumeOrders: unmarshal, handler, answer;
\* the handler fails at most limit times.
HandleOrderWithin(w, result, limit) ==
    /\ At(w, "receive")
    /\ w \in DOMAIN consumers
    /\ msgs[w] # <<>>
    /\ result = "error" => local[w].type = "processor" /\ local[w].nacks < limit
    /\ Handle(w, w, OrderResponse(local[w].type, Head(msgs[w]).body, result))
    /\ local' = [local EXCEPT ![w].nacks =
                   IF result = "error" THEN @ + 1 ELSE @]
    /\ UNCHANGED <<topology, pc, pubs>>

HandleOrder(w, result) == HandleOrderWithin(w, result, MaxNacks)

\* SIGTERM, or the container is killed.
DockerWorkerExit(w) ==
    /\ ~At(w, "exited")
    /\ Exit(w)
    /\ UNCHANGED <<local, handled, pubs>>

NextDocker ==
    \/ SetupExchangesAndQueues("producer")
    \/ \E region \in Regions : PublishOrderWork(region)
    \/ PublishOrderNotify
    \/ PublishOrderRegion
    \/ ProducerExit
    \/ \E w \in DockerWorkers :
          \/ SetupExchangesAndQueues(w)
          \/ ConsumeOrders(w)
          \/ \E result \in HandlerResults : HandleOrder(w, result)
          \/ DockerWorkerExit(w)

SpecDocker == InitDocker /\ [][NextDocker]_vars

\* The ids queue q dispatched in this step, in order.
NewDispatches(q) ==
    [i \in 1..(Len(dlog'[q]) - Len(dlog[q])) |-> dlog'[q][Len(dlog[q]) + i][2]]

InChannel(c) == {msgs[c][i].id : i \in 1..Len(msgs[c])}

\* C6: when a processor's handler fails and the order A is nacked with
\* requeue, A goes back to the head of order_processing: the next dispatch
\* of the queue delivers A, and the orders that waited behind A still wait
\* behind it, in their order.
NackRequeueHead ==
    [][\A w \in DockerWorkers :
          local'[w].nacks # local[w].nacks =>
            LET q == consumers[w].queue
                a == Head(msgs[w]).id
            IN  /\ q = "order_processing"
                /\ Len(dlog'[q]) > Len(dlog[q])
                /\ dlog'[q][Len(dlog[q]) + 1][2] = a
                /\ NewDispatches(q) \o Ids(ready'[q]) = <<a>> \o Ids(ready[q])]_vars

NackRequeueWitness ==
    \E w \in DockerWorkers :
        /\ handled[w] = <<<<1, "nack_requeue">>>>
        /\ Len(dlog["order_processing"]) = 2
        /\ dlog["order_processing"][2][2] = 1
        /\ Waiting("order_processing") = {4}

\* C9: a notification or fulfillment worker consumes with auto-ack: what it
\* was handed is out of the queue and never in an unacked set, no order is
\* dispatched twice from such a queue, and what a closing worker had not
\* handled is neither back in the queue nor with another consumer.
AutoAckAtMostOnce ==
    /\ \A w \in DockerWorkers :
          w \in DOMAIN consumers /\ local[w].type # "processor" =>
            /\ consumers[w].autoAck
            /\ unacked[w] = <<>>
            /\ InChannel(w) \cap Waiting(consumers[w].queue) = {}
    /\ \A q \in DOMAIN dlog \ {"order_processing"} :
          \A id \in 1..sent : Dispatches(q, id) <= 1
    /\ \A x \in lost :
          /\ x[1] \in DOMAIN ready => x[2] \notin Waiting(x[1])
          /\ \A c \in DOMAIN consumers :
                consumers[c].queue = x[1] =>
                  x[2] \notin InChannel(c) /\ x[2] \notin Held(c)
          /\ Dispatches(x[1], x[2]) = 1

AutoAckWitness ==
    \E x \in lost, c \in DOMAIN consumers :
        /\ x[1] = "fulfillment_US"
        /\ consumers[c].queue = "fulfillment_US"
        /\ Len(enq["fulfillment_US"]) = 2
        /\ InChannel(c) # {}

(***************************************************************************)
(* Stox-RabbitMQ: the client of internal/models/models.go, used by the     *)
(* image service and the AI service.                                       *)
(***************************************************************************)
MaxUploads == 2

StoxServices == {"image", "ai"}

\* The goroutines that run ConsumeMessages: one in the image service, three
\* AI workers on one client.
StoxConsumers == {"img", "ai1", "ai2", "ai3"}

ServiceOf(c) ==
    IF c = "img" THEN "image" ELSE IF c = "seo1" THEN "seo" ELSE "ai"

ConsumedQueue(c) ==
    IF c = "img" THEN "image_uploads"
    ELSE IF c = "seo1" THEN "seo_processing" ELSE "ai_processing"

\* A platform whose image exchange is a fanout exchange.
StoxExchangesFanoutImages ==
    [x \in {"stox.images", "stox.listings", "stox.sync", "stox.orders"} |->
       CASE x = "stox.images" -> "fanout"
         [] x = "stox.listings" -> "fanout"
         [] x = "stox.sync" -> "direct"
         [] x = "stox.orders" -> "topic"]

\* SetupExchanges: the exchanges of the platform.
StoxExchanges ==
    [x \in {"stox.images", "stox.listings", "stox.sync", "stox.orders"} |->
       CASE x = "stox.images" -> "topic"
         [] x = "stox.listings" -> "fanout"
         [] x = "stox.sync" -> "direct"
         [] x = "stox.orders" -> "topic"]

\* The queues a service declares: name, exchange, routing key.
ServiceQueues(s) ==
    IF s = "image"
    THEN <<[name |-> "image_uploads", exchange |-> "", routing |-> ""],
           [name |-> "image_processing", exchange |-> "stox.images",
            routing |-> "image.upload"]>>
    ELSE <<[name |-> "ai_processing", exchange |-> "stox.images",
            routing |-> "image.process"],
           [name |-> "ai_enhancement", exchange |-> "", routing |-> ""]>>

\* What a handler publishes before it returns nil.
HandlerPublishes(c) ==
    IF c = "img"
    THEN <<[exchange |-> "stox.images", key |-> "image.process"],
           [exchange |-> "stox.images", key |-> "event.image_uploaded"]>>
    ELSE IF c = "seo1"
    THEN <<[exchange |-> "stox.listings", key |-> ""],
           [exchange |-> "stox.images", key |-> "event.seo_generated"]>>
    ELSE <<[exchange |-> "stox.images", key |-> "image.enhanced"],
           [exchange |-> "stox.images", key |-> "event.ai_enhanced"]>>

HandlerErrs == {"nil", "error"}

\* The requeue argument of d.Nack(false, false).
StoxRequeueOn == TRUE

StoxRequeue == FALSE

\* d.Ack(false) when the handler returned nil, d.Nack(false, false) otherwise.
StoxResponse(err) ==
    IF err = "nil" THEN "ack"
    ELSE IF StoxRequeue THEN "nack_requeue" ELSE "nack"

InitStox ==
    /\ EmptyBroker
    /\ pc = [p \in StoxServices \cup StoxConsumers \cup {"sim"} |->
               IF p \in StoxServices THEN "setup" ELSE "start"]
    /\ local = [p \in StoxServices \cup StoxConsumers \cup {"sim"} |->
                  [q |-> "", err |-> "nil", n |-> 0]]
    /\ handled = [p \in StoxServices \cup StoxConsumers \cup {"sim"} |-> <<>>]

\* main of a service: SetupExchanges, then DeclareQueue for each of its
\* queues; log.Fatalf when one of them returns an error.
StoxSetup(s) ==
    /\ At(s, "setup")
    /\ LET qs == ServiceQueues(s)
       IN  IF \/ \E x \in DOMAIN StoxExchanges :
                    ExchangeConflict(x, StoxExchanges[x])
              \/ \E i \in 1..Len(qs) :
                    QueueConflict(qs[i].name, TRUE, FALSE, s)
           THEN Exit(s)
           ELSE /\ exchanges' =
                     [x \in DOMAIN exchanges \cup DOMAIN StoxExchanges |->
                        IF x \in DOMAIN StoxExchanges THEN StoxExchanges[x]
                        ELSE exchanges[x]]
                /\ queues' = Ext(Ext(queues, qs[1].name,
                                     QueueAttrs(TRUE, FALSE, s)),
                                 qs[2].name, QueueAttrs(TRUE, FALSE, s))
                /\ bindings' = bindings \cup
                     {[queue |-> qs[i].name, key |-> qs[i].routing,
                       exchange |-> qs[i].exchange] :
                        i \in {j \in 1..Len(qs) : qs[j].exchange # ""}}
                /\ Becomes(QueueAdded(QueueAdded(Cur, qs[1].name), qs[2].name))
                /\ Goto(s, "serving")
                /\ UNCHANGED gen
    /\ UNCHANGED <<local, handled, pubs>>

\* simulateImageUploads: the image service feeds its own upload queue.
SimulateImageUpload ==
    /\ At("image", "serving")
    /\ local["sim"].n < MaxUploads
    /\ Publish("", "image_uploads", "product")
    /\ local' = [local EXCEPT !["sim"].n = @ + 1]
    /\ UNCHANGED <<topology, pc, handled>>

\* ConsumeMessages up to the start of its goroutine: Consume with auto-ack
\* false, no Qos.
ConsumeMessages(c) ==
    /\ At(ServiceOf(c), "serving")
    /\ At(c, "start")
    /\ Becomes(Consuming(Cur, c, ConsumedQueue(c), FALSE, 0, ServiceOf(c)))
    /\ Goto(c, "receive")
    /\ UNCHANGED <<topology, local, handled, pubs>>

RECURSIVE PublishedSeq(_, _, _)
PublishedSeq(d, outs, n) ==
    IF outs = <<>> THEN d
    ELSE PublishedSeq(
           Published(d, Head(outs).exchange, Head(outs).key,
                     [id |-> n + 1, key |-> Head(outs).key, body |-> "product"]),
           Tail(outs), n + 1)

\* One turn of the goroutine of ConsumeMessages: err := handler(d.Body),
\* then d.Nack(false, false) or d.Ack(false).
HandleMessage(c, err) ==
    /\ At(ServiceOf(c), "serving")
    /\ At(c, "receive")
    /\ msgs[c] # <<>>
    /\ LET m == Head(msgs[c])
           outs == IF err = "nil" THEN HandlerPublishes(c) ELSE <<>>
       IN  /\ Becomes(Responded(PublishedSeq(Received(Cur, c), outs, sent),
                                c, m, StoxResponse(err)))
           /\ pubs' = pubs \o outs
           /\ handled' = [handled EXCEPT
                            ![c] = Append(@, <<m.id, StoxResponse(err)>>)]
    /\ local' = [local EXCEPT ![c].err = err]
    /\ UNCHANGED <<topology, pc>>

\* SIGTERM: main returns and the deferred client.Close() runs.
StoxExit(s) ==
    /\ ~At(s, "exited")
    /\ Exit(s)
    /\ UNCHANGED <<local, handled, pubs>>

NextStox ==
    \/ \E s \in StoxServices : StoxSetup(s) \/ StoxExit(s)
    \/ SimulateImageUpload
    \/ \E c \in StoxConsumers :
          \/ ConsumeMessages(c)
          \/ \E err \in HandlerErrs : HandleMessage(c, err)

SpecStox == InitStox /\ [][NextStox]_vars

\* How often the consumers together answered for message id.
Responses(id) ==
    LET F[S \in SUBSET StoxConsumers] ==
          IF S = {} THEN 0
          ELSE LET c == CHOOSE x \in S : TRUE
               IN  Cardinality({i \in 1..Len(handled[c]) : handled[c][i][1] = id})
                     + F[S \ {c}]
    IN  F[StoxConsumers]

MaxCalls == 5

Connections == {"c1", "c2"}

CallExchanges == {"stox.images"}

CallKinds == {"topic", "fanout"}

CallQueues == {"", "ai_processing"}

CallPatterns == {"image.process", "#"}

CallKeys == {"image.process", "image.upload"}

\* The calls made so far; local["call"] keeps the last call and its result.
Calls == local["call"].n

\* declare_exchange answers ConflictError or ok.
DeclareExchangeResult(name, kind) ==
    IF ExchangeConflict(name, kind) THEN "ConflictError" ELSE "ok"

\* declare_queue answers ConflictError or ok.
DeclareQueueResult(name, exclusive, conn) ==
    IF QueueConflict(DeclaredName(name), FALSE, exclusive, conn)
    THEN "ConflictError" ELSE "ok"

\* bind answers NotFoundError or ok.
BindResult(queue, exchange) ==
    IF BindNotFound(queue, exchange) THEN "NotFoundError" ELSE "ok"

\* publish answers UnroutableError only when mandatory and nothing matched.
PublishResultNever(exchange, key, mandatory) == "ok"

PublishResult(exchange, key, mandatory) ==
    IF mandatory /\ Route(exchange, key) = {} THEN "UnroutableError" ELSE "ok"

InitCalls ==
    /\ EmptyBroker
    /\ pc = [c \in Connections |-> "open"]
    /\ local = [x \in {"call"} |->
                  [conn |-> "", op |-> "none", result |-> "ok", q |-> "",
                   exchange |-> "", key |-> "", flag |-> FALSE, n |-> 0]]
    /\ handled = [c \in Connections |-> <<>>]

\* What every call leaves in the record of the last call: the caller, the
\* operation, its arguments (flag is exclusive, mandatory, or whether the
\* binding existed) and its result.
Called(c, op, result, q, exchange, key, flag) ==
    [local EXCEPT !["call"] =
       [conn |-> c, op |-> op, result |-> result, q |-> q,
        exchange |-> exchange, key |-> key, flag |-> flag, n |-> @.n + 1]]

CallDeclareExchange(c, name, kind) ==
    /\ At(c, "open")
    /\ Calls < MaxCalls
    /\ exchanges' = IF ExchangeConflict(name, kind) THEN exchanges
                    ELSE ExchangeDeclared(name, kind)
    /\ local' = Called(c, "declare_exchange", DeclareExchangeResult(name, kind),
                       "", name, kind, name \in DOMAIN exchanges)
    /\ UNCHANGED <<queues, bindings, gen, delivery, pc, handled, pubs>>

CallDeclareQueue(c, name, exclusive) ==
    /\ At(c, "open")
    /\ Calls < MaxCalls
    /\ LET q == DeclaredName(name)
       IN  IF QueueConflict(q, FALSE, exclusive, c)
           THEN /\ local' = Called(c, "declare_queue", "ConflictError", q,
                                   "", name, exclusive)
                /\ UNCHANGED <<queues, gen, delivery>>
           ELSE /\ queues' = Ext(queues, q, QueueAttrs(FALSE, exclusive, c))
                /\ gen' = IF name = "" THEN gen + 1 ELSE gen
                /\ Becomes(QueueAdded(Cur, q))
                /\ local' = Called(c, "declare_queue", "ok", q,
                                   "", name, exclusive)
    /\ UNCHANGED <<exchanges, bindings, pc, handled, pubs>>

CallBind(c, queue, exchange, pattern) ==
    /\ At(c, "open")
    /\ Calls < MaxCalls
    /\ bindings' = IF BindNotFound(queue, exchange) THEN bindings
                   ELSE Bound(queue, pattern, exchange)
    /\ local' = Called(c, "bind", BindResult(queue, exchange), queue, exchange,
                       pattern,
                       [queue |-> queue, exchange |-> exchange,
                        key |-> pattern] \in bindings)
    /\ UNCHANGED <<exchanges, queues, gen, delivery, pc, handled, pubs>>

CallPublish(c, exchange, key, mandatory) ==
    /\ At(c, "open")
    /\ Calls < MaxCalls
    /\ Publish(exchange, key, "product")
    /\ local' = Called(c, "publish", PublishResult(exchange, key, mandatory),
                       "", exchange, key, mandatory)
    /\ UNCHANGED <<topology, pc, handled>>

CallClose(c) ==
    /\ At(c, "open")
    /\ Exit(c)
    /\ UNCHANGED <<local, handled, pubs>>

NextCalls ==
    \E c \in Connections :
        \/ \E name \in CallExchanges, kind \in CallKinds :
              CallDeclareExchange(c, name, kind)
        \/ \E name \in CallQueues, exclusive \in BOOLEAN :
              CallDeclareQueue(c, name, exclusive)
        \/ \E queue \in DOMAIN queues \cup {"ai_processing"},
              exchange \in CallExchanges,
              pattern \in CallPatterns :
              CallBind(c, queue, exchange, pattern)
        \/ \E exchange \in CallExchanges, key \in CallKeys, mandatory \in BOOLEAN :
              CallPublish(c, exchange, key, mandatory)
        \/ CallClose(c)

SpecCalls == InitCalls /\ [][NextCalls]_vars

\* This step is a call of operation op.
CallOf(op) ==
    local'["call"].n # local["call"].n /\ local'["call"].op = op

\* The queues with a binding to the exchange whose pattern the key matches,
\* by the reference rule.
Matching(exchange, key) ==
    {b.queue : b \in {x \in bindings :
        /\ x.exchange = exchange
        /\ exchange \in DOMAIN exchanges
        /\ \/ exchanges[exchange] = "fanout"
           \/ /\ exchanges[exchange] = "topic"
              /\ ReferenceMatch(Segments(x.key), Segments(key))}}

\* C11: a publish that matches no queue changes no queue; it answers ok when
\* mandatory is false and UnroutableError when mandatory is true; a publish
\* that matches a queue answers ok.
UnroutablePublish ==
    [][CallOf("publish") =>
         LET p == pubs'[Len(pubs')]
         IN  IF Matching(p.exchange, p.key) = {}
             THEN /\ ready' = ready
                  /\ enq' = enq
                  /\ local'["call"].result =
                       IF local'["call"].flag THEN "UnroutableError" ELSE "ok"
             ELSE local'["call"].result = "ok"]_vars

UnroutableWitness ==
    /\ local["call"].op = "publish"
    /\ local["call"].result = "UnroutableError"
    /\ \E b \in bindings : b.key = "image.process"
    /\ "stox.images" \in DOMAIN exchanges /\ exchanges["stox.images"] = "topic"
    /\ pubs[Len(pubs)].key = "image.upload"
    /\ \A q \in DOMAIN ready : ready[q] = <<>>

\* C12: task_queue holds the producer's tasks in publish order; while no
\* worker has nacked or disconnected, the tasks dispatched so far are the
\* first ones enqueued, in that order, the rest wait in that order, and each
\* worker handles its tasks in publish order.
FifoOrder ==
    "task_queue" \in DOMAIN enq =>
      /\ enq["task_queue"] = [i \in 1..sent |-> i]
      /\ NoWorkerExited =>
           /\ Len(dlog["task_queue"]) <= sent
           /\ \A i \in 1..Len(dlog["task_queue"]) :
                 dlog["task_queue"][i][2] = enq["task_queue"][i]
           /\ Ids(ready["task_queue"]) =
                [i \in 1..(sent - Len(dlog["task_queue"])) |->
                   enq["task_queue"][Len(dlog["task_queue"]) + i]]
           /\ \A w \in Workers :
                 \A i \in 1..Len(handled[w]), j \in 1..Len(handled[w]) :
                    i < j => handled[w][i][1] < handled[w][j][1]

FifoWitness ==
    /\ NoWorkerExited
    /\ handled["w1"] = <<<<1, "ack">>, <<2, "ack">>, <<3, "ack">>>>
    /\ "w2" \notin DOMAIN consumers

\* The position in queue q's dispatch log of the last dispatch to c, or 0.
LastIdx(q, c) ==
    LET S == {i \in 1..Len(dlog[q]) : dlog[q][i][1] = c}
    IN  IF S = {} THEN 0 ELSE CHOOSE i \in S : \A j \in S : j <= i

\* Consumer c could take one more delivery.
Spare(c) ==
    \/ consumers[c].autoAck
    \/ consumers[c].prefetch = 0
    \/ Len(unacked[c]) < consumers[c].prefetch

OneCopyPerQueue ==
    [][CallOf("publish") =>
         LET p == pubs'[Len(pubs')]
         IN  \A q \in DOMAIN queues :
                /\ Len(enq'[q]) - Len(enq[q]) =
                     IF q \in Matching(p.exchange, p.key) THEN 1 ELSE 0
                /\ Occurs(Ids(ready'[q]), sent + 1) =
                     IF q \in Matching(p.exchange, p.key) THEN 1 ELSE 0]_vars

OneCopyWitness ==
    /\ local["call"].op = "publish"
    /\ pubs[Len(pubs)].key = "image.process"
    /\ "stox.images" \in DOMAIN exchanges /\ exchanges["stox.images"] = "topic"
    /\ \A k \in CallPatterns :
          [queue |-> "ai_processing", exchange |-> "stox.images", key |-> k]
            \in bindings
    /\ "ai_processing" \in DOMAIN ready
    /\ Ids(ready["ai_processing"]) = <<sent>>

(***************************************************************************)
(* docker: processor workers whose queue also receives a body that is not  *)
(* an order (d.Body is an input of the goroutine of ConsumeOrders).        *)
(***************************************************************************)
MaxUndecodable == 1

InitDecode ==
    /\ EmptyBroker
    /\ pc = [p \in {"producer", "other"} \cup DockerWorkers |->
               IF p = "other" THEN "open" ELSE "setup"]
    /\ local = [p \in {"producer", "other"} \cup DockerWorkers |->
                  [q |-> "", region |-> "", nacks |-> 0, ids |-> {},
                   type |-> IF p \in DockerWorkers THEN "processor" ELSE p]]
    /\ handled = [p \in {"producer", "other"} \cup DockerWorkers |-> <<>>]

\* Another client publishes a body that json.Unmarshal rejects.
PublishUndecodable ==
    /\ At("other", "open")
    /\ Cardinality(local["other"].ids) < MaxUndecodable
    /\ Publish("", "order_processing", "not an order")
    /\ local' = [local EXCEPT !["other"].ids = @ \cup {sent + 1}]
    /\ UNCHANGED <<topology, pc, handled>>

NextDecode == NextDocker \/ PublishUndecodable

SpecDecode == InitDecode /\ [][NextDecode]_vars

\* C15: a delivery a processor could not decode is neither acked nor nacked:
\* it stays in that worker's unacked set while the worker is connected, and
\* when the worker disconnects what it held is back in order_processing or
\* with the other processor.
UnansweredStays ==
    /\ [](\A w \in DockerWorkers :
            w \in DOMAIN consumers =>
              Answered(w) \cap local["other"].ids \subseteq Held(w))
    /\ [][\A w \in DockerWorkers :
            w \in DOMAIN consumers /\ w \notin DOMAIN consumers' =>
              \A id \in Held(w) :
                 \/ id \in Waiting("order_processing")'
                 \/ \E v \in DockerWorkers \ {w} :
                       (v \in DOMAIN consumers /\ id \in Held(v))']_vars

UnansweredWitness ==
    \E w \in DockerWorkers, v \in DockerWorkers, id \in local["other"].ids :
        /\ pc[w] = "exited"
        /\ handled[w] = <<<<id, "none">>>>
        /\ v \in DOMAIN consumers
        /\ id \in Held(v)
        /\ handled[v] = <<<<id, "none">>>>

\* C16: bind of a triple that is already bound leaves the bindings unchanged;
\* a bind with both endpoints declared answers ok and adds exactly its
\* triple; a bind with an undeclared queue or exchange answers NotFoundError
\* and leaves the topology unchanged; after a repeated bind a matching
\* publish still puts one copy into the queue.
BindIdempotent ==
    [][/\ CallOf("bind") =>
            LET call == local'["call"]
                triple == [queue |-> call.q, exchange |-> call.exchange,
                           key |-> call.key]
            IN  IF call.q \in DOMAIN queues /\ call.exchange \in DOMAIN exchanges
                THEN /\ call.result = "ok"
                     /\ bindings' = bindings \cup {triple}
                     /\ triple \in bindings => bindings' = bindings
                     /\ UNCHANGED <<exchanges, queues, gen>>
                ELSE /\ call.result = "NotFoundError"
                     /\ UNCHANGED <<exchanges, queues, bindings, gen>>
       /\ CallOf("publish") =>
            \A q \in DOMAIN queues : Len(enq'[q]) - Len(enq[q]) <= 1]_vars

BindTwiceWitness ==
    /\ local["call"].op = "bind"
    /\ local["call"].flag
    /\ local["call"].result = "ok"
    /\ Cardinality(bindings) = 1

\* Every queue name the broker has ever used.
EverNamed == DOMAIN enq

\* C17: declare_queue with an empty name answers with a name no queue has or
\* ever had, so the generated names are pairwise distinct and an exclusive
\* queue has one owner; declaring an existing name with identical attributes
\* changes nothing; declaring it with different attributes answers
\* ConflictError and changes nothing.
DeclareQueueUnique ==
    [][CallOf("declare_queue") =>
         LET call == local'["call"]
             attrs == [durable |-> FALSE, exclusive |-> call.flag,
                       owner |-> IF call.flag THEN call.conn ELSE ""]
         IN  IF call.key = ""
             THEN /\ call.result = "ok"
                  /\ call.q # ""
                  /\ call.q \notin DOMAIN queues
                  /\ call.q \notin EverNamed
                  /\ queues' = Ext(queues, call.q, attrs)
                  /\ ready' = Ext(ready, call.q, <<>>)
             ELSE /\ call.q = call.key
                  /\ IF call.q \notin DOMAIN queues
                     THEN /\ call.result = "ok"
                          /\ queues' = Ext(queues, call.q, attrs)
                     ELSE /\ queues' = queues
                          /\ ready' = ready
                          /\ queues[call.q] = attrs => call.result = "ok"
                          /\ queues[call.q].exclusive # call.flag
                               => call.result = "ConflictError"]_vars

DeclareQueueWitness ==
    /\ local["call"].op = "declare_queue"
    /\ local["call"].result = "ConflictError"
    /\ local["call"].q = "ai_processing"
    /\ \E a \in DOMAIN queues, b \in DOMAIN queues :
          /\ a # b
          /\ queues[a].exclusive /\ queues[a].owner = "c1"
          /\ queues[b].exclusive /\ queues[b].owner = "c2"
          /\ {a, b} \cap CallQueues = {}

\* C18: declare_exchange on an existing name with the same kind answers ok
\* and leaves the registry unchanged; on an existing name with a different
\* kind it answers ConflictError and leaves the registry unchanged; on a new
\* name it answers ok and records the kind.
DeclareExchangeIdempotent ==
    [][CallOf("declare_exchange") =>
         LET call == local'["call"]
             name == call.exchange
             kind == call.key
         IN  /\ UNCHANGED <<queues, bindings, gen>>
             /\ IF name \notin DOMAIN exchanges
                THEN /\ call.result = "ok"
                     /\ exchanges' = Ext(exchanges, name, kind)
                ELSE /\ exchanges' = exchanges
                     /\ call.result =
                          IF exchanges[name] = kind THEN "ok"
                          ELSE "ConflictError"]_vars

\* Both answers have been given for one exchange: it was declared, declared
\* again with its kind, and the last call asked for another kind.
DeclareExchangeWitness ==
    /\ local["call"].op = "declare_exchange"
    /\ local["call"].result = "ConflictError"
    /\ local["call"].flag
    /\ local["call"].exchange \in DOMAIN exchanges
    /\ exchanges[local["call"].exchange] # local["call"].key
    /\ local["call"].n >= 3

\* SetupExchanges and DeclareQueue of a Stox service never meet a conflict,
\* whichever services ran them before: the failing branch of StoxSetup is
\* never taken.
StoxSetupSucceeds ==
    \A s \in StoxServices :
       /\ \A x \in DOMAIN StoxExchanges :
             ~ExchangeConflict(x, StoxExchanges[x])
       /\ \A i \in 1..Len(ServiceQueues(s)) :
             ~QueueConflict(ServiceQueues(s)[i].name, TRUE, FALSE, s)

\* Every binding joins a declared queue to a declared exchange.
BindingsSound ==
    \A b \in bindings :
       b.queue \in DOMAIN queues /\ b.exchange \in DOMAIN exchanges

\* The subscribers that declared a queue and have exited since.
Gone == {s \in Subscribers : pc[s] = "exited" /\ local[s].q # ""}

\* C19: every binding's queue and exchange exist; when a subscriber's
\* connection closes, its exclusive queue and all bindings of that queue are
\* removed and nothing else is; a later publish to news_broadcast enqueues
\* no copy for the removed queue.
ExclusiveQueueRemoved ==
    /\ []BindingsSound
    /\ [][/\ \A s \in Subscribers :
               pc[s] # "exited" /\ pc'[s] = "exited" /\ local[s].q # "" =>
                 /\ local[s].q \in DOMAIN queues
                 /\ queues' = Drop(queues, {local[s].q})
                 /\ bindings' = {b \in bindings : b.queue # local[s].q}
                 /\ local[s].q \notin DOMAIN ready'
                 /\ exchanges' = exchanges
          /\ pubs' # pubs =>
               \A s \in Gone :
                  /\ enq'[local[s].q] = enq[local[s].q]
                  /\ local[s].q \notin DOMAIN ready'
                  /\ local[s].q \notin DOMAIN queues']_vars

\* One subscriber received the first broadcast and left; the second
\* broadcast reached only the subscriber that stayed.
ExclusiveQueueWitness ==
    /\ sent = MaxNews
    /\ \E s \in Gone, t \in Subscribers \ Gone :
          /\ enq[local[s].q] = <<1>>
          /\ pc[t] = "receive"
          /\ enq[local[t].q] = <<1, 2>>
          /\ local[s].q \notin DOMAIN queues

\* The calls that only change the topology.
TopologyCall == CallOf("declare_exchange") \/ CallOf("declare_queue") \/ CallOf("bind")

\* The earlier messages that the binding just asked for would have matched.
EarlierMatches(exchange, pattern) ==
    {i \in 1..Len(pubs) :
       /\ pubs[i].exchange = exchange
       /\ exchange \in DOMAIN exchanges
       /\ \/ exchanges[exchange] = "fanout"
          \/ /\ exchanges[exchange] = "topic"
             /\ ReferenceMatch(Segments(pattern), Segments(pubs[i].key))}

\* C20: declare_exchange, declare_queue and bind leave every queue's
\* contents, every enqueue history and every consumer's unacked set and
\* channel unchanged, and a queue they create is empty; a queue gains a
\* message only in the publish that carries it, so a queue bound after a
\* message was published never receives that message.
TopologyKeepsContents ==
    [][/\ TopologyCall =>
            /\ \A q \in DOMAIN ready :
                  /\ q \in DOMAIN ready'
                  /\ ready'[q] = ready[q]
                  /\ enq'[q] = enq[q]
            /\ \A q \in DOMAIN ready' \ DOMAIN ready :
                  /\ q = local'["call"].q
                  /\ ready'[q] = <<>>
                  /\ enq'[q] = <<>>
            /\ UNCHANGED <<consumers, unacked, msgs, lost, pubs>>
       /\ \A q \in DOMAIN queues \cap DOMAIN queues' :
             \/ enq'[q] = enq[q]
             \/ /\ CallOf("publish")
                /\ enq'[q] = Append(enq[q], sent + 1)]_vars

\* The queue was bound after message 1 had been published to its exchange
\* with a key its binding matches: it holds message 2 and never held 1.
LateBindWitness ==
    /\ local["call"].op = "publish"
    /\ sent = 2
    /\ \E b \in bindings :
          /\ 1 \in EarlierMatches(b.exchange, b.key)
          /\ enq[b.queue] = <<2>>
          /\ Ids(ready[b.queue]) = <<2>>

\* A queue that holds a message is declared again.
RedeclareWitness ==
    /\ local["call"].op = "declare_queue"
    /\ local["call"].result = "ok"
    /\ local["call"].q \in DOMAIN ready
    /\ ready[local["call"].q] # <<>>

\* Body of the docker SetupExchangesAndQueues step of process p having
\* succeeded.
SetupDone(p) == pc[p] = "setup" /\ pc'[p] \in {"loop", "consume"}

\* SetupExchangesAndQueues of a docker client changes no queue's contents,
\* no unacked set and no consumer channel, also when another worker holds an
\* unacknowledged order.
SetupKeepsContents ==
    [][\A p \in DOMAIN pc :
         SetupDone(p) =>
           /\ \A q \in DOMAIN ready : ready'[q] = ready[q] /\ enq'[q] = enq[q]
           /\ \A q \in DOMAIN ready' \ DOMAIN ready : ready'[q] = <<>>
           /\ UNCHANGED <<consumers, unacked, msgs, lost>>]_vars

\* A docker client has finished its setup while a worker held an order.
SetupWitness ==
    /\ \E c \in DOMAIN unacked : unacked[c] # <<>>
    /\ \E p \in DockerWorkers : pc[p] = "consume"

\* A pub-sub subscriber's ExchangeDeclare, QueueDeclare and QueueBind change
\* no existing queue and no consumer channel, and its queue is still empty
\* when it has been bound, whatever was broadcast before.
SubscriberJoinsEmpty ==
    [][\A s \in Subscribers :
         /\ pc[s] \in {"declare_exchange", "declare_queue", "bind"}
         /\ pc'[s] \notin {pc[s], "exited"}
         => /\ \A q \in DOMAIN ready : ready'[q] = ready[q] /\ enq'[q] = enq[q]
            /\ UNCHANGED <<consumers, unacked, msgs, lost>>
            /\ pc[s] = "bind" =>
                 ready'[local[s].q] = <<>> /\ enq'[local[s].q] = <<>>]_vars

\* The ids whose handler returned an error in consumer c.
Failed(c) ==
    {handled[c][i][1] : i \in {j \in 1..Len(handled[c]) : handled[c][j][2] = "nack"}}

\* C21: a message whose processing failed in a Stox service has been routed
\* on to a dead-letter queue: it is still held by the broker, waiting in
\* some queue or with some consumer.
FailedDeadLettered ==
    \A c \in StoxConsumers : Failed(c) \subseteq Present

(***************************************************************************)
(* Stox-RabbitMQ: the listing stage.  The SEO service broadcasts a product *)
(* on stox.listings; the marketplace services list it and publish a        *)
(* confirmation; the sync service tracks the confirmations.                *)
(***************************************************************************)
MaxProducts == 1

MaxListed == 5

ListingServices == Marketplaces \cup {"sync", "seo"}

\* The queues a service declares in main: name, exchange, routing key.
ListingQueues(s) ==
    CASE s = "amazon" ->
           <<[name |-> "amazon_listings", exchange |-> "stox.listings", routing |-> ""],
             [name |-> "amazon_orders", exchange |-> "stox.orders", routing |-> "order.amazon.*"],
             [name |-> "amazon_sync", exchange |-> "stox.sync", routing |-> "amazon_sync"]>>
      [] s = "trendyol" ->
           <<[name |-> "trendyol_listings", exchange |-> "stox.listings", routing |-> ""],
             [name |-> "trendyol_orders", exchange |-> "stox.orders", routing |-> "order.trendyol.*"],
             [name |-> "trendyol_sync", exchange |-> "stox.sync", routing |-> "trendyol_sync"]>>
      [] s = "hepsiburada" ->
           <<[name |-> "hepsiburada_listings", exchange |-> "stox.listings", routing |-> ""],
             [name |-> "hepsiburada_orders", exchange |-> "stox.orders", routing |-> "order.hepsiburada.*"],
             [name |-> "hepsiburada_sync", exchange |-> "stox.sync", routing |-> "hepsiburada_sync"]>>
      [] s = "sync" ->
           <<[name |-> "inventory_updates", exchange |-> "", routing |-> ""],
             [name |-> "price_updates", exchange |-> "", routing |-> ""],
             [name |-> "listing_events", exchange |-> "stox.listings", routing |-> "event.listed"]>>
      [] OTHER ->
           <<[name |-> "seo_processing", exchange |-> "stox.images", routing |-> "image.enhanced"]>>

\* The queue whose consumer runs the listing handler of service s.
ListingsQueue(s) ==
    IF s = "sync" THEN "listing_events" ELSE ListingQueues(s)[1].name

\* What a marketplace handler publishes after listing the product.
ListedEvent == [exchange |-> "stox.listings", key |-> "event.listed"]

\* What handleSEOGeneration broadcasts to the marketplaces.
ProductBroadcast == [exchange |-> "stox.listings", key |-> ""]

\* rabbitmq.NewClient inside a handler: the broker answers at the fixed URL
\* or it does not; the error is discarded and the client is then nil.
Dials == {"ok", "refused"}

RECURSIVE QueuesAdded(_, _)
QueuesAdded(d, qs) ==
    IF qs = <<>> THEN d ELSE QueuesAdded(QueueAdded(d, Head(qs).name), Tail(qs))

InitListings ==
    /\ EmptyBroker
    /\ pc = [p \in ListingServices |-> "setup"]
    /\ local = [p \in ListingServices |-> [q |-> "", err |-> "nil", n |-> 0]]
    /\ handled = [p \in ListingServices |-> <<>>]

\* main of a service: SetupExchanges, then DeclareQueue for each queue.
ListingSetup(s) ==
    /\ At(s, "setup")
    /\ LET qs == ListingQueues(s)
           names == {qs[i].name : i \in 1..Len(qs)}
       IN  IF \/ \E x \in DOMAIN StoxExchanges :
                    ExchangeConflict(x, StoxExchanges[x])
              \/ \E q \in names : QueueConflict(q, TRUE, FALSE, s)
           THEN Exit(s)
           ELSE /\ exchanges' =
                     [x \in DOMAIN exchanges \cup DOMAIN StoxExchanges |->
                        IF x \in DOMAIN StoxExchanges THEN StoxExchanges[x]
                        ELSE exchanges[x]]
                /\ queues' = [q \in DOMAIN queues \cup names |->
                                IF q \in names THEN QueueAttrs(TRUE, FALSE, s)
                                ELSE queues[q]]
                /\ bindings' = bindings \cup
                     {[queue |-> qs[i].name, key |-> qs[i].routing,
                       exchange |-> qs[i].exchange] :
                        i \in {j \in 1..Len(qs) : qs[j].exchange # ""}}
                /\ Becomes(QueuesAdded(Cur, qs))
                /\ Goto(s, IF s = "seo" THEN "serving" ELSE "consume")
                /\ UNCHANGED gen
    /\ UNCHANGED <<local, handled, pubs>>

\* handleSEOGeneration: client.PublishMessage("stox.listings", "", product)
\* on a client of its own; a nil client panics.
BroadcastProduct(dial) ==
    /\ At("seo", "serving")
    /\ local["seo"].n < MaxProducts
    /\ sent < MaxListed
    /\ IF dial = "ok"
       THEN /\ Publish(ProductBroadcast.exchange, ProductBroadcast.key, "product")
            /\ local' = [local EXCEPT !["seo"].n = @ + 1]
            /\ UNCHANGED <<topology, pc, handled>>
       ELSE /\ Exit("seo")
            /\ UNCHANGED <<local, handled, pubs>>

\* ConsumeMessages(listings queue, handler) up to its goroutine.
ListingConsume(s) ==
    /\ s # "seo"
    /\ At(s, "consume")
    /\ Becomes(Consuming(Cur, s, ListingsQueue(s), FALSE, 0, s))
    /\ Goto(s, "receive")
    /\ UNCHANGED <<topology, local, handled, pubs>>

\* One turn of the goroutine with handleAmazonListing, handleTrendyolListing
\* or handleHepsiburadaListing: the body decodes as a Product whether it is
\* a product or a confirmation event, the listing is made, the confirmation
\* is published on a client of the handler's own and the delivery is acked;
\* a nil client panics.
HandleListing(s, dial) ==
    /\ s \in Marketplaces
    /\ At(s, "receive")
    /\ msgs[s] # <<>>
    /\ sent < MaxListed
    /\ IF dial = "ok"
       THEN LET m == Head(msgs[s])
            IN  /\ Becomes(Responded(
                     Published(Received(Cur, s), ListedEvent.exchange,
                               ListedEvent.key,
                               [id |-> sent + 1, key |-> ListedEvent.key,
                                body |-> "event"]),
                     s, m, StoxResponse("nil")))
                /\ pubs' = Append(pubs, ListedEvent)
                /\ handled' = [handled EXCEPT
                                 ![s] = Append(@, <<m.id, StoxResponse("nil")>>)]
                /\ UNCHANGED <<topology, pc, local>>
       ELSE /\ Exit(s)
            /\ UNCHANGED <<local, handled, pubs>>

\* One turn of the goroutine with handleListingEvent: nil for a body that
\* is not a marketplace_listed event, nil after tracking one that is.
HandleListingEvent ==
    /\ At("sync", "receive")
    /\ msgs["sync"] # <<>>
    /\ LET m == Head(msgs["sync"])
       IN  /\ Becomes(Responded(Received(Cur, "sync"), "sync", m,
                                StoxResponse("nil")))
           /\ handled' = [handled EXCEPT
                            !["sync"] = Append(@, <<m.id, StoxResponse("nil")>>)]
    /\ UNCHANGED <<topology, pc, local, pubs>>

NextListings ==
    \/ \E s \in ListingServices : ListingSetup(s) \/ ListingConsume(s)
    \/ \E dial \in Dials :
          \/ BroadcastProduct(dial)
          \/ \E s \in Marketplaces : HandleListing(s, dial)
    \/ HandleListingEvent

SpecListings == InitListings /\ [][NextListings]_vars

\* The routing keys under which the messages ever enqueued in q were
\* published.
KeysEnqueued(q) == {pubs[enq[q][i]].key : i \in 1..Len(enq[q])}

\* C22: each marketplace listings queue receives only the products the SEO
\* service broadcasts, and listing_events receives only the confirmations
\* published with routing key event.listed.
ListingsSeparated ==
    /\ \A s \in Marketplaces :
          ListingsQueue(s) \in DOMAIN queues =>
            KeysEnqueued(ListingsQueue(s)) \subseteq {ProductBroadcast.key}
    /\ "listing_events" \in DOMAIN queues =>
          KeysEnqueued("listing_events") \subseteq {ListedEvent.key}

\* The number of messages published to stox.listings so far.
PublishedToListings ==
    Cardinality({i \in 1..Len(pubs) : pubs[i].exchange = "stox.listings"})

\* C23: with the three marketplace services and the sync service running,
\* the publishing on stox.listings stops after one product was broadcast:
\* the product and one confirmation from each marketplace service is all
\* that is ever published there.
ListingsQuiescent ==
    /\ local["seo"].n <= 1
    /\ \A s \in Marketplaces \cup {"sync"} : pc[s] = "receive"
    => PublishedToListings <= 1 + Cardinality(Marketplaces)

\* The processors that skipped a delivery they could not decode.
Poisoned == {w \in DockerWorkers : Answered(w) \cap local["other"].ids # {}}

\* C24: a processor that was handed a body it cannot decode answers
\* nothing for it, and from then on, for as long as its connection stays
\* open, order_processing delivers nothing more to it: what it holds, what
\* is in its channel and what it has handled no longer change.
PoisonBlocks ==
    [][\A w \in DockerWorkers :
         /\ \A id \in local["other"].ids :
               ~(\E i \in 1..Len(handled'[w]) :
                    handled'[w][i][1] = id /\ handled'[w][i][2] # "none")
         /\ w \in Poisoned /\ w \in DOMAIN consumers /\ w \in DOMAIN consumers'
            => /\ msgs[w] = <<>>
               /\ msgs'[w] = <<>>
               /\ unacked'[w] = unacked[w]
               /\ handled'[w] = handled[w]
               /\ \A i \in 1..Len(NewDispatches("order_processing")) :
                     dlog'["order_processing"]
                        [Len(dlog["order_processing"]) + i][1] # w]_vars

\* A processor is blocked by the body it skipped while an order waits in
\* order_processing and nobody else is there to take it.
PoisonWitness ==
    \E w \in Poisoned :
        /\ w \in DOMAIN consumers
        /\ Held(w) \subseteq local["other"].ids
        /\ Waiting("order_processing") # {}
        /\ \A v \in DockerWorkers \ {w} : pc[v] = "exited"

(***************************************************************************)
(* docker: the producer's input loop, parseOrder and PublishOrder, with    *)
(* each PublishWithContext succeeding or returning an error.               *)
(***************************************************************************)
MaxPlaced == 2

\* A line of input is a sequence of tokens; ":" is the separator.
Joined(parts) ==
    LET J[i \in 0..Len(parts)] ==
          IF i = 0 THEN <<>>
          ELSE IF i = 1 THEN <<parts[1]>>
          ELSE J[i - 1] \o <<":", parts[i]>>
    IN  J[Len(parts)]

\* What the user types: four to six parts, amounts and regions of all kinds.
OrderInputs ==
    {Joined(<<"user123", "laptop", a, r, "express">>) :
        a \in {"999.99", "abc", "NaN"}, r \in {"US", "eu", "Asia", "TR"}}
    \cup {Joined(<<"user123", "laptop", "999.99", "US">>),
          Joined(<<"user123", "laptop", "999.99", "EU", "express", "gift">>),
          Joined(<<"user123", "", "999.99", "asia", "">>)}

\* strings.Split(input, ":")
RECURSIVE Split(_)
Split(input) ==
    IF \A i \in 1..Len(input) : input[i] # ":" THEN <<input>>
    ELSE LET i == Min({j \in 1..Len(input) : input[j] = ":"})
         IN  <<SubSeq(input, 1, i - 1)>>
               \o Split(SubSeq(input, i + 1, Len(input)))

\* strconv.ParseFloat(s, 64): a number, NaN, or an error.
ParseFloat(part) ==
    CASE part = <<"999.99">> -> "number"
      [] part = <<"NaN">> -> "NaN"
      [] OTHER -> "error"

\* strings.ToUpper
ToUpper(part) ==
    CASE part = <<"eu">> -> <<"EU">>
      [] part = <<"Asia">> -> <<"ASIA">>
      [] part = <<"asia">> -> <<"ASIA">>
      [] OTHER -> part

validRegions == {<<"US">>, <<"EU">>, <<"ASIA">>}

\* parseOrder that keeps the region as it was typed.
parseOrderAsTyped(input) ==
    LET parts == Split(input)
    IN  IF Len(parts) # 5 THEN [err |-> "invalid format"]
        ELSE IF ParseFloat(parts[3]) = "error" THEN [err |-> "invalid amount"]
        ELSE IF ToUpper(parts[4]) \notin validRegions
             THEN [err |-> "invalid region"]
        ELSE [err |-> "nil", amount |-> ParseFloat(parts[3]),
              region |-> parts[4][1]]

parseOrder(input) ==
    LET parts == Split(input)
    IN  IF Len(parts) # 5 THEN [err |-> "invalid format"]
        ELSE IF ParseFloat(parts[3]) = "error" THEN [err |-> "invalid amount"]
        ELSE IF ToUpper(parts[4]) \notin validRegions
             THEN [err |-> "invalid region"]
        ELSE [err |-> "nil", amount |-> ParseFloat(parts[3]),
              region |-> ToUpper(parts[4])[1]]

\* PublishOrder with the fanout publish first.
PublishOrderDestinationsFanoutFirst(region) ==
    <<[exchange |-> "order_notifications", key |-> ""],
      [exchange |-> "", key |-> "order_processing"],
      [exchange |-> "regional_fulfillment", key |-> region]>>

\* The publishes of PublishOrder, in order.
PublishOrderDestinations(region) ==
    <<[exchange |-> "", key |-> "order_processing"],
      [exchange |-> "order_notifications", key |-> ""],
      [exchange |-> "regional_fulfillment", key |-> region]>>

PublishOutcomes == {"nil", "error"}

InitProducer ==
    /\ EmptyBroker
    /\ pc = [p \in {"producer"} |-> "setup"]
    /\ local = [p \in {"producer"} |->
                  [input |-> <<>>, region |-> "", result |-> "", step |-> 0,
                   start |-> 0, n |-> 0]]
    /\ handled = [p \in {"producer"} |-> <<>>]

ProducerSetup ==
    /\ SetupExchangesAndQueues("producer")

\* One turn of the input loop up to the first publish: parseOrder, and
\* json.Marshal at the head of PublishOrder, which rejects NaN.
PlaceOrder(input) ==
    /\ At("producer", "loop")
    /\ local["producer"].n < MaxPlaced
    /\ LET order == parseOrder(input)
           next == [local["producer"] EXCEPT
                      !.input = input, !.n = @ + 1, !.start = sent, !.step = 0]
       IN  IF order.err # "nil"
           THEN /\ local' = [local EXCEPT !["producer"] =
                               [next EXCEPT !.result = order.err, !.region = ""]]
                /\ UNCHANGED pc
           ELSE IF order.amount = "NaN"
           THEN /\ local' = [local EXCEPT !["producer"] =
                               [next EXCEPT !.result = "error",
                                            !.region = order.region]]
                /\ UNCHANGED pc
           ELSE /\ local' = [local EXCEPT !["producer"] =
                               [next EXCEPT !.result = "",
                                            !.region = order.region]]
                /\ Goto("producer", "publish")
    /\ UNCHANGED <<topology, delivery, handled, pubs>>

\* The next PublishWithContext of PublishOrder: it succeeds, or it returns
\* an error and PublishOrder returns it at once.
PublishNext(outcome) ==
    /\ At("producer", "publish")
    /\ LET i == local["producer"].step + 1
           to == PublishOrderDestinations(local["producer"].region)[i]
       IN  IF outcome = "nil"
           THEN /\ Publish(to.exchange, to.key, "order")
                /\ local' = [local EXCEPT
                               !["producer"].step = i,
                               !["producer"].result = IF i = 3 THEN "nil" ELSE ""]
                /\ IF i = 3 THEN Goto("producer", "loop") ELSE UNCHANGED pc
           ELSE /\ local' = [local EXCEPT !["producer"].result = "error"]
                /\ Goto("producer", "loop")
                /\ UNCHANGED <<delivery, pubs>>
    /\ UNCHANGED <<topology, handled>>

NextProducer ==
    \/ ProducerSetup
    \/ \E input \in OrderInputs : PlaceOrder(input)
    \/ \E outcome \in PublishOutcomes : PublishNext(outcome)
    \/ ProducerExit

SpecProducer == InitProducer /\ [][NextProducer]_vars

\* The positions of the separators of a line, and the text between the
\* (k-1)-th and the k-th of them.
Colons(input) == {i \in 1..Len(input) : input[i] = ":"}

ColonAt(input, k) ==
    IF k = 0 THEN 0
    ELSE IF k > Cardinality(Colons(input)) THEN Len(input) + 1
    ELSE CHOOSE i \in Colons(input) :
            Cardinality({j \in Colons(input) : j < i}) = k - 1

Field(input, k) ==
    SubSeq(input, ColonAt(input, k - 1) + 1, ColonAt(input, k) - 1)

\* A line that is not an order: not exactly five parts, an amount that is
\* not a number, or a region that is not US, EU or ASIA in any casing.
RejectedInput(input) ==
    \/ Cardinality(Colons(input)) # 4
    \/ Field(input, 3) \notin {<<"999.99">>, <<"NaN">>}
    \/ Field(input, 4) \notin
         {<<"US">>, <<"us">>, <<"EU">>, <<"eu">>, <<"ASIA">>, <<"Asia">>, <<"asia">>}

\* C25: a line that parseOrder rejects causes no publish and leaves the
\* producer at its prompt; whatever is published belongs to a line that was
\* not rejected; every message published to regional_fulfillment carries
\* the routing key US, EU or ASIA.
OrderValidation ==
    [][/\ /\ local'["producer"].n # local["producer"].n
          /\ RejectedInput(local'["producer"].input)
          => /\ pubs' = pubs
             /\ pc'["producer"] = "loop"
             /\ local'["producer"].result \notin {"", "nil", "error"}
             /\ UNCHANGED <<topology, delivery>>
       /\ pubs' # pubs =>
             /\ ~RejectedInput(local["producer"].input)
             /\ Len(pubs') = Len(pubs) + 1
             /\ pubs'[Len(pubs')].exchange = "regional_fulfillment"
                  => pubs'[Len(pubs')].key \in {"US", "EU", "ASIA"}]_vars

\* A rejected line was followed by an order typed with region eu, which
\* went out to regional_fulfillment with key EU.
OrderValidationWitness ==
    /\ local["producer"].n = 2
    /\ Len(pubs) = 3
    /\ Field(local["producer"].input, 4) = <<"eu">>
    /\ pubs[3] = [exchange |-> "regional_fulfillment", key |-> "EU"]
    /\ local["producer"].result = "nil"

\* The publishes issued for the order being placed.
Issued == SubSeq(pubs, local["producer"].start + 1, Len(pubs))

\* C26: PublishOrder publishes to order_processing, then order_notifications,
\* then regional_fulfillment with the order's region: what it has issued is
\* always a prefix of that sequence, all of it after a nil return and a
\* proper prefix after an error return; nothing published earlier is taken
\* back from order_processing.
PublishOrderPrefix ==
    /\ [](LET want == <<[exchange |-> "", key |-> "order_processing"],
                        [exchange |-> "order_notifications", key |-> ""],
                        [exchange |-> "regional_fulfillment",
                         key |-> local["producer"].region]>>
          IN  /\ Len(Issued) <= 3
              /\ Issued = SubSeq(want, 1, Len(Issued))
              /\ local["producer"].result = "nil" => Len(Issued) = 3
              /\ local["producer"].result = "error" => Len(Issued) < 3
              /\ pc["producer"] = "loop" /\ Len(Issued) = 3
                   => local["producer"].result = "nil")
    /\ [][/\ Len(pubs') >= Len(pubs)
          /\ "order_processing" \in DOMAIN ready /\ pc'["producer"] # "exited" =>
                /\ Len(ready'["order_processing"]) >= Len(ready["order_processing"])
                /\ SubSeq(ready'["order_processing"], 1,
                          Len(ready["order_processing"])) = ready["order_processing"]
         ]_vars

\* The second publish of the second order failed: its first publish stays in
\* order_processing behind the first order, which went out completely.
PublishOrderWitness ==
    /\ local["producer"].result = "error"
    /\ Len(Issued) = 1
    /\ Len(pubs) = 4
    /\ pc["producer"] = "loop"
    /\ Ids(ready["order_processing"]) = <<1, 4>>

(***************************************************************************)
(* Stox-RabbitMQ: the demo next to the image service and the AI service.   *)
(***************************************************************************)
\* A demo that declares the queue it publishes to.
DemoQueuesDeclared ==
    <<[name |-> "image_uploads", exchange |-> "", routing |-> ""]>>

\* The queues the demo declares in main: none, it only calls SetupExchanges.
DemoQueues == <<>>

\* The consumers that run next to the demo: the image service's and one AI
\* worker.
DemoConsumers == {"img", "ai1"}

DemoProcesses == StoxServices \cup DemoConsumers \cup {"sim", "demo"}

InitDemo ==
    /\ EmptyBroker
    /\ pc = [p \in DemoProcesses |->
               IF p \in StoxServices \cup {"demo"} THEN "setup" ELSE "start"]
    /\ local = [p \in DemoProcesses |-> [q |-> "", err |-> "nil", n |-> 0]]
    /\ handled = [p \in DemoProcesses |-> <<>>]

\* main of the demo up to runDemo.
DemoSetup ==
    /\ At("demo", "setup")
    /\ LET names == {DemoQueues[i].name : i \in 1..Len(DemoQueues)}
       IN  IF \E x \in DOMAIN StoxExchanges :
                 ExchangeConflict(x, StoxExchanges[x])
           THEN Exit("demo")
           ELSE /\ exchanges' =
                     [x \in DOMAIN exchanges \cup DOMAIN StoxExchanges |->
                        IF x \in DOMAIN StoxExchanges THEN StoxExchanges[x]
                        ELSE exchanges[x]]
                /\ queues' = [q \in DOMAIN queues \cup names |->
                                IF q \in names THEN QueueAttrs(TRUE, FALSE, "demo")
                                ELSE queues[q]]
                /\ Becomes(QueuesAdded(Cur, DemoQueues))
                /\ Goto("demo", "run")
                /\ UNCHANGED <<bindings, gen>>
    /\ UNCHANGED <<local, handled, pubs>>

\* runDemo, phase 1: client.PublishMessage("", "image_uploads", product);
\* the error it returns is kept in err.
DemoUpload ==
    /\ At("demo", "run")
    /\ local["demo"].n < MaxUploads
    /\ Publish("", "image_uploads", "product")
    /\ local' = [local EXCEPT !["demo"].n = @ + 1, !["demo"].err = "nil"]
    /\ UNCHANGED <<topology, pc, handled>>

NextDemo ==
    \/ \E s \in StoxServices : StoxSetup(s) \/ StoxExit(s)
    \/ SimulateImageUpload
    \/ \E c \in DemoConsumers :
          \/ ConsumeMessages(c)
          \/ \E err \in HandlerErrs : HandleMessage(c, err)
    \/ DemoSetup
    \/ DemoUpload

SpecDemo == InitDemo /\ [][NextDemo]_vars

\* The products published to image_uploads that no queue ever took in.
Dropped ==
    {i \in 1..Len(pubs) :
       /\ pubs[i] = [exchange |-> "", key |-> "image_uploads"]
       /\ \A q \in DOMAIN enq : \A j \in 1..Len(enq[q]) : enq[q][j] # i}

\* C27: a product the demo publishes before the image service has declared
\* image_uploads is dropped: the publish returns no error, no queue takes the
\* product in and no consumer ever handles it; a product published once the
\* queue exists is enqueued in image_uploads.
DemoDrops ==
    /\ [][/\ local'["demo"].n # local["demo"].n =>
               /\ local'["demo"].err = "nil"
               /\ IF "image_uploads" \notin DOMAIN queues
                  THEN /\ UNCHANGED <<topology, delivery>>
                       /\ sent' \in Dropped'
                  ELSE enq'["image_uploads"] =
                            Append(enq["image_uploads"], sent')
          /\ Dropped \subseteq Dropped'
         ]_vars
    /\ [](/\ pc["image"] = "setup" => "image_uploads" \notin DOMAIN queues
          /\ \A c \in DemoConsumers : Answered(c) \cap Dropped = {})

\* The demo's first product was dropped, the second one went through the
\* image service.
DemoDropsWitness ==
    /\ local["demo"].n = 2
    /\ Dropped = {1}
    /\ handled["img"] # <<>>
    /\ handled["img"][1][1] = 2
    /\ local["sim"].n = 0

(***************************************************************************)
(* Stox-RabbitMQ: the image pipeline, from the upload queue through the    *)
(* image service and the AI service to the SEO service.                    *)
(***************************************************************************)
PipelineServices == {"image", "ai", "seo"}

\* One goroutine of ConsumeMessages per service.
PipelineConsumers == {"img", "ai1", "seo1"}

PipelineProcesses == PipelineServices \cup PipelineConsumers \cup {"sim"}

InitPipeline ==
    /\ EmptyBroker
    /\ pc = [p \in PipelineProcesses |->
               IF p \in PipelineServices THEN "setup" ELSE "start"]
    /\ local = [p \in PipelineProcesses |-> [q |-> "", err |-> "nil", n |-> 0]]
    /\ handled = [p \in PipelineProcesses |-> <<>>]

NextPipeline ==
    \/ \E s \in StoxServices : StoxSetup(s)
    \/ ListingSetup("seo")
    \/ \E s \in PipelineServices : StoxExit(s)
    \/ SimulateImageUpload
    \/ \E c \in PipelineConsumers :
          \/ ConsumeMessages(c)
          \/ \E err \in HandlerErrs : HandleMessage(c, err)

SpecPipeline == InitPipeline /\ [][NextPipeline]_vars

\* The routing keys of the processing events.
EventKeys == {"event.image_uploaded", "event.ai_enhanced", "event.seo_generated"}

KnownTypes ==
    {"processor", "inventory", "email", "analytics"}
      \cup {"fulfillment_" \o r : r \in Regions \cup {"ASIA"}}

UnknownWorkers == {w \in DockerWorkers : local[w].type \notin KnownTypes}

\* C29: ConsumeOrders with a worker type that is none of processor,
\* inventory, email, analytics or fulfillment_ plus a non-empty region
\* returns nil, declares no queue, registers no consumer, and its handler
\* is never invoked.
UnknownTypeIdle ==
    /\ [][\A w \in UnknownWorkers :
            pc[w] = "consume" /\ pc'[w] # "consume" =>
              \/ pc'[w] = "receive" /\ UNCHANGED <<topology, delivery, local>>
              \/ pc'[w] = "exited" /\ UNCHANGED <<local, handled, pubs>>
                    /\ DOMAIN queues' = DOMAIN queues]_vars
    /\ [](\A w \in UnknownWorkers :
            /\ w \notin DOMAIN consumers
            /\ handled[w] = <<>>
            /\ local[w].q = ""
            /\ "fulfillment_" \o RegionOf(local[w].type) \notin DOMAIN queues
            /\ \A q \in DOMAIN queues : queues[q].owner # w)

UnknownTypeWitness ==
    /\ local["k1"].type = "fulfillment_"
    /\ local["k2"].type = "shipping"
    /\ pc["k1"] = "receive" /\ pc["k2"] = "receive"
    /\ sent = 3 * MaxOrders
    /\ ready["order_processing"] # <<>>

(***************************************************************************)
(* docker: two workers of one type.                                        *)
(***************************************************************************)
NotificationTypes == {"inventory", "email", "analytics"}

\* The connected workers started as fulfillment_<R>.
FulfillmentWorkers(R) ==
    {w \in DockerWorkers :
       local[w].type = "fulfillment_" \o R /\ w \in DOMAIN consumers}

\* The connected workers of a notification type.
NotificationWorkers ==
    {w \in DockerWorkers :
       local[w].type \in NotificationTypes /\ w \in DOMAIN consumers}

\* The workers queue q dispatched message id to.
Receivers(q, id) == {w \in DockerWorkers : DeliveredTo(q, w, id)}

\* What Receivers and Dispatches are after the step.
ReceiversNext(q, id) ==
    {w \in DockerWorkers : \E i \in 1..Len(dlog'[q]) : dlog'[q][i] = <<w, id>>}

DispatchesNext(q, id) ==
    Cardinality({i \in 1..Len(dlog'[q]) : dlog'[q][i][2] = id})

\* C30: workers of one fulfillment_<R> type consume from the one queue
\* fulfillment_<R> and each order for region R is delivered to exactly one
\* of them; workers of one notification type each own a separate exclusive
\* queue and every order is delivered to each of them.
SameTypeWorkers ==
    /\ [](/\ \A R \in Regions : \A w \in FulfillmentWorkers(R) :
                consumers[w].queue = "fulfillment_" \o R
          /\ \A w1, w2 \in NotificationWorkers :
                /\ queues[consumers[w1].queue] = QueueAttrs(FALSE, TRUE, w1)
                /\ w1 # w2 => consumers[w1].queue # consumers[w2].queue)
    /\ [][/\ sent' # sent =>
              LET p == pubs'[sent']
                  q == "fulfillment_" \o p.key
              IN  /\ p.exchange = "regional_fulfillment"
                       /\ FulfillmentWorkers(p.key) # {} =>
                     /\ Cardinality(ReceiversNext(q, sent')) = 1
                     /\ ReceiversNext(q, sent') \subseteq FulfillmentWorkers(p.key)
                     /\ DispatchesNext(q, sent') = 1
                  /\ p.exchange = "order_notifications" =>
                     \A w \in NotificationWorkers :
                        /\ w \in ReceiversNext(consumers[w].queue, sent')
                        /\ DispatchesNext(consumers[w].queue, sent') = 1
          /\ \A R \in Regions :
                "fulfillment_" \o R \in DOMAIN queues =>
                  \A id \in 1..sent :
                     /\ DispatchesNext("fulfillment_" \o R, id) >=
                          Dispatches("fulfillment_" \o R, id)
                     /\ DispatchesNext("fulfillment_" \o R, id) <= 1]_vars

SameTypeWitness ==
    /\ FulfillmentWorkers("US") = DockerWorkers
    /\ \E i, j \in 1..sent :
          /\ i # j
          /\ Receivers("fulfillment_US", i) = {"k1"}
          /\ Receivers("fulfillment_US", j) = {"k2"}

\* Two inventory workers have both received both orders.
NotificationWitness ==
    /\ NotificationWorkers = DockerWorkers
    /\ consumers["k1"].queue # consumers["k2"].queue
    /\ \A w \in DockerWorkers :
          Cardinality({id \in 1..sent : DeliveredTo(consumers[w].queue, w, id)}) = MaxOrders

(***************************************************************************)
(* docker: processors whose handler keeps failing.                         *)
(***************************************************************************)
\* How often a processor's handler may fail in a run of retries.
MaxRetries == 3

\* Worker k1 is a processor; k2 is a second processor or a worker that
\* consumes nothing.
InitRetry ==
    /\ InitDocker
    /\ local["k1"].type = "processor"
    /\ local["k2"].type \in {"processor", "shipping"}

NextRetry ==
    \/ SetupExchangesAndQueues("producer")
    \/ \E region \in Regions : PublishOrderWork(region)
    \/ PublishOrderNotify
    \/ PublishOrderRegion
    \/ ProducerExit
    \/ \E w \in DockerWorkers :
          \/ SetupExchangesAndQueues(w)
          \/ ConsumeOrders(w)
          \/ \E result \in HandlerResults : HandleOrderWithin(w, result, MaxRetries)
          \/ DockerWorkerExit(w)

SpecRetry == InitRetry /\ [][NextRetry]_vars

\* Processor w is the only processor and its handler has failed on every
\* attempt so far.
AlwaysFailing(w) ==
    /\ local[w].type = "processor"
    /\ \A v \in DockerWorkers \ {w} : local[v].type # "processor"
    /\ handled[w] # <<>>
    /\ \A i \in 1..Len(handled[w]) : handled[w][i][2] = "nack_requeue"

\* C31: a processor's nack with requeue has no retry limit: after every
\* failure, the first as the last, the order is back with a processor and
\* never discarded; behind an order whose handler fails every time, a single
\* prefetch-1 processor is delivered nothing else.
NoRetryLimit ==
    /\ [][\A w \in DockerWorkers :
            local'[w].nacks # local[w].nacks =>
              LET a == Head(msgs[w])
              IN  /\ handled'[w] = Append(handled[w], <<a.id, "nack_requeue">>)
                  /\ a.id \in Present'
                  /\ DispatchesNext("order_processing", a.id) =
                       Dispatches("order_processing", a.id) + 1
                  /\ AlwaysFailing(w)' =>
                       /\ msgs'[w] = <<a>>
                       /\ unacked'[w] = <<a>>
                       /\ ready'["order_processing"] = ready["order_processing"]]_vars
    /\ [](\A w \in DockerWorkers :
            AlwaysFailing(w) =>
              /\ Answered(w) = {handled[w][1][1]}
              /\ Dispatches("order_processing", handled[w][1][1]) >= Len(handled[w])
              /\ \A i \in 1..Len(enq["order_processing"]) :
                    enq["order_processing"][i] # handled[w][1][1] =>
                      /\ Dispatches("order_processing", enq["order_processing"][i]) = 0
                      /\ enq["order_processing"][i] \in Waiting("order_processing"))

NoRetryLimitWitness ==
    /\ AlwaysFailing("k1")
    /\ Len(handled["k1"]) = MaxRetries
    /\ Dispatches("order_processing", 1) = MaxRetries + 1
    /\ "k1" \in DOMAIN consumers
    /\ Held("k1") = {1}
    /\ Waiting("order_processing") = {4}

(***************************************************************************)
(* Stox-RabbitMQ: the sync service's inventory updates and the sync queues *)
(* of the marketplace services.                                            *)
(***************************************************************************)
MaxUpdates == 3

\* update.Marketplace of an inventory update.
UpdateTargets == Marketplaces \cup {"all", "ebay"}

SyncProcesses == Marketplaces \cup {"sync", "inv"}

\* A routing key without the suffix.
SyncKeyPlain(marketplace) == marketplace

\* routingKey := fmt.Sprintf("%s_sync", marketplace)
SyncKey(marketplace) == marketplace \o "_sync"

\* marketplaces := []string{"amazon", "trendyol", "hepsiburada"}
marketplaces == <<"amazon", "trendyol", "hepsiburada">>

\* The publishes of the loop over marketplaces for an update to target.
RECURSIVE SyncPublishes(_, _)
SyncPublishes(target, i) ==
    IF i > Len(marketplaces) THEN <<>>
    ELSE (IF target = "all" \/ target = marketplaces[i]
          THEN <<[exchange |-> "stox.sync", key |-> SyncKey(marketplaces[i])]>>
          ELSE <<>>) \o SyncPublishes(target, i + 1)

\* The broker after the publishes outs of one update, the n-th publish on.
RECURSIVE UpdatesPublished(_, _, _, _)
UpdatesPublished(d, outs, n, target) ==
    IF outs = <<>> THEN d
    ELSE UpdatesPublished(
           Published(d, Head(outs).exchange, Head(outs).key,
                     [id |-> n + 1, key |-> Head(outs).key, body |-> target]),
           Tail(outs), n + 1, target)

InitSync ==
    /\ EmptyBroker
    /\ pc = [p \in SyncProcesses |-> IF p = "inv" THEN "start" ELSE "setup"]
    /\ local = [p \in SyncProcesses |-> [q |-> "", err |-> "nil", n |-> 0]]
    /\ handled = [p \in SyncProcesses |-> <<>>]

\* main of the sync service: go client.ConsumeMessages("inventory_updates",
\* handleInventoryUpdate), up to the goroutine.
SyncConsume ==
    /\ At("sync", "consume")
    /\ Becomes(Consuming(Cur, "inv", "inventory_updates", FALSE, 0, "sync"))
    /\ Goto("sync", "receive")
    /\ UNCHANGED <<topology, local, handled, pubs>>

\* simulateInventoryChanges and periodicSync:
\* client.PublishMessage("", "inventory_updates", update).
PublishUpdate(target) ==
    /\ At("sync", "receive")
    /\ local["sync"].n < MaxUpdates
    /\ Publish("", "inventory_updates", target)
    /\ local' = [local EXCEPT !["sync"].n = @ + 1]
    /\ UNCHANGED <<topology, pc, handled>>

\* One turn of the goroutine with handleInventoryUpdate: the update goes to
\* stox.sync once for every marketplace it names, on a client of the
\* handler's own, the handler returns nil and the delivery is acked; a nil
\* client panics.
HandleInventoryUpdate(dial) ==
    /\ At("sync", "receive")
    /\ "inv" \in DOMAIN consumers
    /\ msgs["inv"] # <<>>
    /\ IF dial = "ok"
       THEN LET m == Head(msgs["inv"])
                outs == SyncPublishes(m.body, 1)
            IN  /\ Becomes(Responded(
                     UpdatesPublished(Received(Cur, "inv"), outs, sent, m.body),
                     "inv", m, StoxResponse("nil")))
                /\ pubs' = pubs \o outs
                /\ handled' = [handled EXCEPT
                                 !["inv"] = Append(@, <<m.id, StoxResponse("nil")>>)]
                /\ UNCHANGED <<topology, pc, local>>
       ELSE /\ Exit("sync")
            /\ UNCHANGED <<local, handled, pubs>>

NextSync ==
    \/ \E s \in Marketplaces \cup {"sync"} : ListingSetup(s)
    \/ SyncConsume
    \/ \E target \in UpdateTargets : PublishUpdate(target)
    \/ \E dial \in Dials : HandleInventoryUpdate(dial)

SpecSync == InitSync /\ [][NextSync]_vars

\* How many messages queue q takes in in this step.
TakenIn(q) == Len(enq'[q]) - Len(enq[q])

====
